---- MODULE Spec2Model ----
(***************************************************************************)
(* PhotoShare client (andrasfe/photoshare, client/).                       *)
(*                                                                         *)
(* One run of the system is one process: the command line client           *)
(* (main.py: run_sync, or a direct call of PhotoSyncClient.sync() as the   *)
(* tests make it) or the web client (web/app.py: start_sync, cancel_sync,  *)
(* the _run_sync task).  Both drive the same PhotoSyncClient (sync.py)     *)
(* against the same state file.                                            *)
(*                                                                         *)
(* Time is an integer clock (the code's float Unix timestamps); a Python   *)
(* Optional value is a sequence of length 0 (None) or 1.  Strings that the *)
(* code splits or quotes are sequences of one-character strings.           *)
(***************************************************************************)
EXTENDS Integers, Sequences, FiniteSets, TLC

\* ---------------------------------------------------------------- bounds
\* the clock's first reading, the number of ticks after it, the number of
\* photos the server comes to hold, the number of web tasks in flight
StartTime == 9
MaxClock == 2
MaxPhotos == 2
MaxTasks == 1

None == <<>>
Some(x) == <<x>>

Slots == 1..MaxTasks

\* the tasks the event loop of the web client can hold: one more than are
\* started one after the other, for a start request that is accepted while
\* a pass is in flight
TaskSlots == 1..(MaxTasks + 1)

\* ------------------------------------------------------------ characters
S_photos == <<"/", "p", "h", "o", "t", "o", "s">>
S_since == <<"?", "s", "i", "n", "c", "e", "=">>
S_download == <<"/", "d", "o", "w", "n", "l", "o", "a", "d">>
S_livephoto == <<"/", "l", "i", "v", "e", "p", "h", "o", "t", "o">>
S_health == <<"/", "h", "e", "a", "l", "t", "h">>

DigitChars == <<"0", "1", "2", "3", "4", "5", "6", "7", "8", "9">>

\* str(n) for a non-negative integer, as the f-string of list_photos renders it
RECURSIVE Format(_)
Format(n) ==
    IF n < 10 THEN <<DigitChars[n + 1]>>
    ELSE Format(n \div 10) \o <<DigitChars[(n % 10) + 1]>>

DigitValue(c) == CHOOSE d \in 0..9 : DigitChars[d + 1] = c

IsDigit(c) == \E d \in 0..9 : DigitChars[d + 1] = c

\* the number a digit string denotes (the server's reading of since=)
RECURSIVE ParseNat(_)
ParseNat(s) ==
    IF s = <<>> THEN 0
    ELSE 10 * ParseNat(SubSeq(s, 1, Len(s) - 1)) + DigitValue(s[Len(s)])

\* index of the first occurrence of character c in s, 0 when absent (str.find + 1)
FirstIndex(s, c) ==
    IF \E i \in 1..Len(s) : s[i] = c
    THEN CHOOSE i \in 1..Len(s) : s[i] = c /\ \A j \in 1..(i - 1) : s[j] # c
    ELSE 0

\* urllib.parse.quote(photo_id, safe=''): letters, digits and _.-~ are kept,
\* every other character becomes %XX
QuoteChar(c) ==
    IF c = "/" THEN <<"%", "2", "F">>
    ELSE IF c = "?" THEN <<"%", "3", "F">>
    ELSE <<c>>

RECURSIVE Quote(_)
Quote(s) == IF s = <<>> THEN <<>> ELSE QuoteChar(Head(s)) \o Quote(Tail(s))

\* ------------------------------------------------------ server's photos
\* Photo k of the server: its identifier (opaque, may hold path separators
\* and query characters) and whether its metadata carries the livePhoto tag.
PhotoId(k) ==
    IF k % 3 = 1 THEN <<"a", "/">> \o Format(k)
    ELSE IF k % 3 = 2 THEN <<"b", "?">> \o Format(k)
    ELSE <<"c">> \o Format(k)

PhotoLive(k) == k % 2 = 0

\* ------------------------------------------------------------ state file
\* Content of Config.STATE_FILE: missing, text that is not JSON, JSON that
\* is not an object, or the record {"last_sync_timestamp": ts}.
FileAbsent == [k |-> "absent", ts |-> 0]
FileGarbage == [k |-> "garbage", ts |-> 0]
FileNonObject == [k |-> "nonobject", ts |-> 0]
FileCursor(t) == [k |-> "cursor", ts |-> t]

\* a JSON object without the key last_sync_timestamp
FileNoKey == [k |-> "nokey", ts |-> 0]

\* get_last_sync_time: [raised, val]
get_last_sync_time(f) ==
    IF f.k = "absent" THEN [raised |-> FALSE, val |-> None]
    ELSE IF f.k = "garbage" THEN [raised |-> FALSE, val |-> None]
    ELSE IF f.k = "nokey" THEN [raised |-> FALSE, val |-> None]
    ELSE IF f.k = "nonobject" THEN [raised |-> TRUE, val |-> None]
    ELSE [raised |-> FALSE, val |-> Some(f.ts)]

\* save_sync_time: the new content of the state file
save_sync_time(timestamp) == FileCursor(timestamp)

\* ------------------------------------------------------------- transport
\* a _make_request that signs the path as it is sent
sign_path_whole(path) == path

\* path.split("?")[0]
sign_path(path) ==
    IF FirstIndex(path, "?") = 0 THEN path
    ELSE SubSeq(path, 1, FirstIndex(path, "?") - 1)

\* generate_auth_headers: the headers it returns
generate_auth_headers == {"X-Timestamp", "X-Signature"}

\* _make_request: the request as sent, the path as signed and the headers
make_request(method, path) ==
    [method |-> method, wire |-> path, signed |-> sign_path(path),
     headers |-> generate_auth_headers]

\* check_health: self.client.get("/health"), a request that does not go
\* through _make_request: nothing is signed and no header is added
health_request ==
    [method |-> "GET", wire |-> S_health, signed |-> <<>>, headers |-> {}]

\* a list_photos that formats the parameter whether or not there is a value
list_path_since_always(since) ==
    S_photos \o S_since \o (IF since # None THEN Format(since[1]) ELSE <<>>)

\* list_photos: the path it requests
list_path(since) ==
    IF since # None THEN S_photos \o S_since \o Format(since[1])
    ELSE S_photos

\* _download_regular_photo / _download_live_photo: the path they request
download_path(k) ==
    S_photos \o <<"/">> \o Quote(PhotoId(k))
        \o (IF PhotoLive(k) THEN S_livephoto ELSE S_download)

\* The server's reading of a listing request: the since value of its query
\* string, None when the request has none.
ServerSince(wire) ==
    LET q == FirstIndex(wire, "?")
    IN IF q = 0 THEN None
       ELSE Some(ParseNat(SubSeq(wire, q + Len(S_since), Len(wire))))

\* The server's answer to a listing: every photo created at or after since,
\* in the server's order.
RECURSIVE ListFrom(_, _, _)
ListFrom(created, since, k) ==
    IF k > Len(created) THEN <<>>
    ELSE (IF since = None \/ created[k] >= since[1] THEN <<k>> ELSE <<>>)
         \o ListFrom(created, since, k + 1)

ServerListing(created, wire) == ListFrom(created, ServerSince(wire), 1)

\* What can happen to the listing request.
ListAnswers == {"ok", "status_error", "connect_error", "timeout", "bad_body"}

\* httpx.HTTPStatusError, ConnectError and TimeoutException are httpx.HTTPError
ListHttpErrors == {"status_error", "connect_error", "timeout"}

\* What can happen to one download, regular or live.
RegularFaults ==
    {"ok", "status_error", "connect_error", "bad_creation_date", "write_error"}

LiveFaults ==
    {"ok", "status_error", "connect_error", "no_boundary", "no_parts",
     "bad_disposition", "write_error"}

DownloadFaults(k) == IF PhotoLive(k) THEN LiveFaults ELSE RegularFaults

\* download_photo: "saved" (a path), "failed" (None) or "raised".  Only
\* httpx.HTTPError is caught; a missing boundary and a body without usable
\* parts return None; ValueError (datetime.fromisoformat), IndexError
\* (split('filename="')[1]) and OSError (write_bytes) leave the function.
download_photo(fault) ==
    IF fault = "ok" THEN "saved"
    ELSE IF fault \in {"status_error", "connect_error"} THEN "failed"
    ELSE IF fault \in {"no_boundary", "no_parts"} THEN "failed"
    ELSE "raised"

\* What can happen to GET /health: a response with a status, an
\* httpx.HTTPError (a refused connection), or httpx.InvalidURL, which the
\* client property raises when Config.SERVER_URL cannot be parsed and which
\* is no httpx.HTTPError.
HealthAnswers == {"200", "500", "connect_error", "invalid_url"}

\* check_health: [raised, val].  True only for status 200; httpx.HTTPError
\* gives False; any other exception leaves the function.
check_health(answer) ==
    IF answer = "invalid_url" THEN [raised |-> TRUE, val |-> FALSE]
    ELSE [raised |-> FALSE, val |-> answer = "200"]

\* ----------------------------------------------------------------- state
VARIABLES
    program,     \* "cli" or "web": the process this run is
    clock,       \* datetime.now()
    stateFile,   \* content of Config.STATE_FILE
    server,      \* creation time of the server's photos, photo k at index k
    pass,        \* the passes: the CLI's in slot 1, the web's tasks in any slot
    req,         \* the last request sent through _make_request, if any
    owed,        \* photos created since the last listing request was issued
    sync_state,  \* web/app.py's SyncState
    call,        \* the last call of a function applied on its own, with its result
    dir,         \* Config.DOWNLOAD_DIR: the content of each file, by name
    dl,          \* the last download_photo call on the directory, with its result
    disk,        \* Config.STATE_FILE as text, as another process finds it
    wr,          \* a save_sync_time call: where it is and what it saves
    rd,          \* the last read of the state file, with its result
    manager,     \* web/app.py's ConnectionManager
    sending,     \* a manager.broadcast call: where it is and whom it sent to
    Config       \* config.py's Config: the class attributes update_config sets

vars ==
    <<program, clock, stateFile, server, pass, req, owed, sync_state, call,
      dir, dl, disk, wr, rd, manager, sending, Config>>

web_vars == <<sync_state>>

\* what the passes of the client leave alone: the state of the components
\* that are run on their own
comp_vars == <<call, dir, dl, disk, wr, rd>>

aux_vars == <<comp_vars, manager, sending, Config>>

NoCall == [fn |-> "none", arg |-> <<>>, out |-> <<>>, again |-> <<>>]

\* a directory without files
EmptyDir == [name \in {} |-> <<>>]

\* No download yet.  A download: what was asked (input), the directory as it
\* was found (before), the result ("saved", "failed" or "raised"), the path
\* returned, and the paths written, in order.
NoDownload ==
    [kind |-> "none", input |-> <<>>, before |-> EmptyDir, result |-> "none",
     path |-> None, written |-> <<>>]

\* the state file as text: missing, or its characters
NoFile == [exists |-> FALSE, text |-> <<>>]

FileText(text) == [exists |-> TRUE, text |-> text]

\* no save_sync_time call yet; saved is the value of the last completed call
NoSave == [pc |-> "idle", value |-> 0, before |-> NoFile, saved |-> None]

NoRead ==
    [kind |-> "none", during |-> FALSE, raw |-> NoFile,
     res |-> [raised |-> FALSE, val |-> None],
     before |-> NoFile, after |-> NoFile, saved |-> None]

FilesIdle == dir = EmptyDir /\ dl = NoDownload

StoreIdle == disk = NoFile /\ wr = NoSave /\ rd = NoRead

\* ConnectionManager.__init__; accepted is every websocket that has connected
ConnectionManager == [active_connections |-> <<>>, accepted |-> {}]

\* No broadcast yet.  A broadcast: the position of its list iterator (index),
\* the connections it called send_json on, in order (sent), how many of these
\* calls raised, and the connections that were in the list when it was called
\* and have been in it ever since (stayed).
NoBroadcast ==
    [pc |-> "idle", index |-> 0, sent |-> <<>>, raised |-> 0, stayed |-> {}]

\* Config as the module is loaded, with no environment variable set
DefaultConfig == [SERVER_URL |-> "localhost", DOWNLOAD_DIR |-> "downloads"]

AppIdle ==
    manager = ConnectionManager /\ sending = NoBroadcast /\ Config = DefaultConfig

AuxIdle == call = NoCall /\ FilesIdle /\ StoreIdle /\ AppIdle

\* A pass: the locals of sync() / _run_sync, and what it has done so far.
\*   kind      "sync", "run_sync" or "web"
\*   healthy   what check_health() answers in this pass
\*   healthAns what happens to the GET /health of this pass
\*   healthRes how the check_health() call of the pass ended: "true",
\*             "false" or "raised"
\*   override  since_timestamp of _run_sync
\*   since     last_sync / effective_since
\*   T0        sync_start_time
\*   results   the result of each download_photo call so far
\*   reported  the number of downloads the pass reports at its end
\*   cursor0   the state file as the pass found it
\*   wrote     the value the pass saved with save_sync_time
\*   listRes   how the listing request ended; listAt, when it was issued;
\*             listWire, the path it was sent with
\*   owedAt    the photos owed when the listing was answered
\*   requested the photos whose download request the pass has issued, in order
\*   config0   Config as it was when the pass started
\*   base_url  base_url of the pass's httpx.Client, once it is built
\*   dirs      Config.DOWNLOAD_DIR as it was read for each file saved
\*   cancelAt  the number of downloads the pass had started when a cancel was
\*             last accepted while it ran
\*   events    the messages _run_sync has handed to manager.broadcast, in
\*             order: the type and, for a per-item message, "current"
NoPass ==
    [kind |-> "none", pc |-> "idle", healthy |-> TRUE, healthAns |-> "none",
     healthRes |-> "none", override |-> None,
     since |-> None, T0 |-> None, photos |-> <<>>, results |-> <<>>,
     downloaded |-> 0, outcome |-> "none", reported |-> None,
     cursor0 |-> FileAbsent, wrote |-> None, listRes |-> "none",
     listAt |-> None, listWire |-> <<>>, owedAt |-> {}, events |-> <<>>,
     cancelAt |-> None, requested |-> <<>>,
     config0 |-> DefaultConfig, base_url |-> None, dirs |-> <<>>]

\* PhotoSyncClient.client: the httpx.Client is built at its first use, with
\* self.config.SERVER_URL as it is then
http_client(p) ==
    IF p.base_url = None THEN [p EXCEPT !.base_url = Some(Config.SERVER_URL)]
    ELSE p

\* SyncState.__init__ (the byte count, file name and datetimes steer nothing)
SyncState ==
    [is_syncing |-> FALSE, current_photo |-> 0, total_photos |-> 0,
     downloaded_count |-> 0, failed_count |-> 0, error_message |-> ""]

Init ==
    /\ program \in {"cli", "web"}
    /\ clock = StartTime
    /\ stateFile \in {FileAbsent, FileGarbage, FileNonObject,
                      FileCursor(StartTime - 1)}
    /\ server = <<>>
    /\ pass = [n \in TaskSlots |-> NoPass]
    /\ req = None
    /\ owed = None
    /\ sync_state = SyncState
    /\ AuxIdle

\* ----------------------------------------------------------- environment
Tick ==
    /\ clock < StartTime + MaxClock
    /\ clock' = clock + 1
    /\ UNCHANGED <<aux_vars, program, stateFile, server, pass, req, owed, web_vars>>

\* A photo appears on the server, created now.
CreatePhoto ==
    /\ Len(server) < MaxPhotos
    /\ server' = Append(server, clock)
    /\ owed' = IF owed = None THEN None ELSE Some(owed[1] \cup {Len(server) + 1})
    /\ UNCHANGED <<aux_vars, program, clock, stateFile, pass, req, web_vars>>

Running(n) == pass[n].pc \notin {"idle", "done"}

Range(s) == {s[i] : i \in 1..Len(s)}

\* The listing of a pass, as the server and the transport answer it: the
\* request sent, the photos returned, and the pass with the listing noted.
ListingRequest(p) == make_request("GET", list_path(p.since))

Listed(p, answer) ==
    [p EXCEPT !.listRes = IF answer \in ListHttpErrors THEN "http_error" ELSE answer,
              !.listAt = Some(clock),
              !.listWire = ListingRequest(p).wire,
              !.owedAt = IF answer = "ok" /\ owed # None THEN owed[1] ELSE {}]

OwedAfterListing(answer) == IF answer = "ok" \/ owed = None THEN Some({}) ELSE owed

\* ------------------------------------------------------------- CLI pass
\* How an exception leaves a pass: out of sync() to its caller, or into the
\* except Exception of run_sync.
Escaped(p) == IF p.kind = "sync" THEN "raised" ELSE "error"

\* main.run_sync, or PhotoSyncClient.sync() called directly
CliStart(kind, answer) ==
    /\ program = "cli"
    /\ ~Running(1)
    /\ pass' = [pass EXCEPT ![1] =
                    [NoPass EXCEPT !.kind = kind,
                                   !.pc = IF kind = "run_sync" THEN "health" ELSE "read",
                                   !.healthy = check_health(answer).val,
                                   !.healthAns = IF kind = "run_sync"
                                                 THEN answer ELSE "none",
                                   !.cursor0 = stateFile,
                                   !.config0 = Config]]
    /\ UNCHANGED <<aux_vars, program, clock, stateFile, server, req, owed, web_vars>>

\* the healthRes of a check_health() call that ended as h
HealthRes(h) == IF h.raised THEN "raised" ELSE IF h.val THEN "true" ELSE "false"

\* run_sync: if not client.check_health(): return; an exception that leaves
\* check_health is caught by run_sync's except Exception
CliHealth(n) ==
    /\ pass[n].kind = "run_sync"
    /\ pass[n].pc = "health"
    /\ LET h == check_health(pass[n].healthAns)
           q == http_client(pass[n])
       IN pass' = [pass EXCEPT ![n] =
                    IF h.raised
                    THEN [q EXCEPT !.pc = "done", !.outcome = "error",
                                   !.healthRes = HealthRes(h)]
                    ELSE IF h.val
                    THEN [q EXCEPT !.pc = "read", !.healthRes = HealthRes(h)]
                    ELSE [q EXCEPT !.pc = "done", !.outcome = "unhealthy",
                                   !.healthRes = HealthRes(h)]]
    /\ req' = Some(health_request)
    /\ UNCHANGED <<aux_vars, program, clock, stateFile, server, owed, web_vars>>

\* sync(): last_sync = self.get_last_sync_time(); sync_start_time = now
CliRead(n) ==
    /\ pass[n].kind \in {"sync", "run_sync"}
    /\ pass[n].pc = "read"
    /\ LET r == get_last_sync_time(stateFile)
       IN pass' = [pass EXCEPT ![n] =
                    IF r.raised
                    THEN [@ EXCEPT !.pc = "done", !.outcome = Escaped(pass[n])]
                    ELSE [@ EXCEPT !.pc = "list", !.since = r.val,
                                   !.T0 = Some(clock)]]
    /\ UNCHANGED <<aux_vars, program, clock, stateFile, server, req, owed, web_vars>>

\* a sync() that saves sync_start_time before it looks at the listing's error
sync_after_listing_saving(answer, photos) ==
    IF answer \in ListHttpErrors THEN "save_return_0"
    ELSE IF answer = "bad_body" THEN "raise"
    ELSE IF photos = <<>> THEN "save_return_0"
    ELSE "download"

\* sync(): what follows the listing: return 0 on httpx.HTTPError, any other
\* exception leaves sync(), an empty list saves the cursor and returns 0
sync_after_listing(answer, photos) ==
    IF answer \in ListHttpErrors THEN "return_0"
    ELSE IF answer = "bad_body" THEN "raise"
    ELSE IF photos = <<>> THEN "save_return_0"
    ELSE "download"

\* sync(): photos = self.list_photos(since=last_sync), and the empty case
CliList(n, answer) ==
    /\ pass[n].kind \in {"sync", "run_sync"}
    /\ pass[n].pc = "list"
    /\ LET r == ListingRequest(pass[n])
           photos == ServerListing(server, r.wire)
           p == Listed(http_client(pass[n]), answer)
           branch == sync_after_listing(answer, photos)
       IN /\ req' = Some(r)
          /\ owed' = OwedAfterListing(answer)
          /\ IF branch = "return_0"
             THEN /\ pass' = [pass EXCEPT ![n] =
                        [p EXCEPT !.pc = "done", !.outcome = "list_failed",
                                  !.reported = Some(0)]]
                  /\ UNCHANGED stateFile
             ELSE IF branch = "raise"
             THEN /\ pass' = [pass EXCEPT ![n] =
                        [p EXCEPT !.pc = "done", !.outcome = Escaped(p)]]
                  /\ UNCHANGED stateFile
             ELSE IF branch = "save_return_0"
             THEN /\ pass' = [pass EXCEPT ![n] =
                        [p EXCEPT !.pc = "done", !.outcome = "empty",
                                  !.reported = Some(0),
                                  !.wrote = Some(p.T0[1])]]
                  /\ stateFile' = save_sync_time(p.T0[1])
             ELSE /\ pass' = [pass EXCEPT ![n] =
                        [p EXCEPT !.pc = "download", !.photos = photos]]
                  /\ UNCHANGED stateFile
    /\ UNCHANGED <<aux_vars, program, clock, server, web_vars>>

\* a loop that walks the listing from its end
next_photo_from_end(p) == p.photos[Len(p.photos) - Len(p.results)]

\* "for photo in photos" / "for i, photo in enumerate(photos)": the photo of
\* the iteration that follows the results so far
next_photo(p) == p.photos[Len(p.results) + 1]

\* sync(): one iteration of "for photo in photos"
CliDownload(n, fault) ==
    /\ pass[n].kind \in {"sync", "run_sync"}
    /\ pass[n].pc = "download"
    /\ LET k == next_photo(pass[n])
           result == download_photo(fault)
           p == [pass[n] EXCEPT !.results = Append(@, result),
                                !.requested = Append(@, k),
                                !.dirs = IF result = "saved"
                                         THEN Append(@, Config.DOWNLOAD_DIR)
                                         ELSE @]
       IN /\ fault \in DownloadFaults(k)
          /\ req' = Some(make_request("GET", download_path(k)))
          /\ pass' = [pass EXCEPT ![n] =
                IF result = "raised"
                THEN [p EXCEPT !.pc = "done", !.outcome = Escaped(p)]
                ELSE [p EXCEPT !.downloaded =
                                   IF result = "saved" THEN @ + 1 ELSE @,
                               !.pc = IF Len(p.results) = Len(p.photos)
                                      THEN "save" ELSE "download"]]
    /\ UNCHANGED <<aux_vars, program, clock, stateFile, server, owed, web_vars>>

\* sync(): self.save_sync_time(sync_start_time); return downloaded
CliSave(n) ==
    /\ pass[n].kind \in {"sync", "run_sync"}
    /\ pass[n].pc = "save"
    /\ stateFile' = save_sync_time(pass[n].T0[1])
    /\ pass' = [pass EXCEPT ![n] =
                    [@ EXCEPT !.pc = "done", !.outcome = "complete",
                              !.reported = Some(pass[n].downloaded),
                              !.wrote = Some(pass[n].T0[1])]]
    /\ UNCHANGED <<aux_vars, program, clock, server, req, owed, web_vars>>

\* ------------------------------------------------------------- web pass
\* The since_date a start request can carry: none, one that does not parse,
\* the epoch (timestamp 0) or a later date.
SinceDates ==
    {[k |-> "absent", ts |-> 0], [k |-> "invalid", ts |-> 0],
     [k |-> "date", ts |-> 0], [k |-> "date", ts |-> StartTime + 1]}

FreeSlots(slots) == {n \in slots : ~Running(n)}

\* await manager.broadcast({"type": type, ...}) by pass p
Broadcast(p, type, current) ==
    [p EXCEPT !.events = Append(@, [type |-> type, current |-> current])]

\* POST /api/sync.  create_task schedules _run_sync; it first runs later.
\* slots are the tasks the event loop has room for.
start_sync(date, slots) ==
    /\ program = "web"
    /\ sync_state.is_syncing \/ date.k = "invalid" \/ FreeSlots(slots) # {}
    /\ IF sync_state.is_syncing \/ date.k = "invalid"
       THEN UNCHANGED pass
       ELSE LET n == CHOOSE m \in FreeSlots(slots) :
                        \A o \in FreeSlots(slots) : m <= o
            IN pass' = [pass EXCEPT ![n] =
                    [NoPass EXCEPT !.kind = "web", !.pc = "start",
                                   !.override = IF date.k = "date"
                                                THEN Some(date.ts) ELSE None]]
    /\ UNCHANGED <<aux_vars, program, clock, stateFile, server, req, owed, sync_state>>

\* the number of downloads pass p has started
Started(p) == Len(p.results) + (IF p.pc = "download" THEN 1 ELSE 0)

\* POST /api/sync/cancel: "not_running", or the flag is cleared under every
\* pass that runs
cancel_sync ==
    /\ program = "web"
    /\ IF ~sync_state.is_syncing
       THEN UNCHANGED <<sync_state, pass>>
       ELSE /\ sync_state' = [sync_state EXCEPT !.is_syncing = FALSE]
            /\ pass' = [n \in TaskSlots |->
                    IF pass[n].kind = "web" /\ pass[n].pc \notin {"start", "finally"}
                    THEN [pass[n] EXCEPT !.cancelAt = Some(Started(pass[n]))]
                    ELSE pass[n]]
    /\ UNCHANGED <<aux_vars, program, clock, stateFile, server, req, owed>>

\* _run_sync up to its first await: the flag and the counters
WebBegin(n) ==
    /\ pass[n].kind = "web"
    /\ pass[n].pc = "start"
    /\ sync_state' = [SyncState EXCEPT !.is_syncing = TRUE]
    /\ pass' = [pass EXCEPT ![n] =
                    [Broadcast(pass[n], "sync_started", 0) EXCEPT
                        !.pc = "health", !.config0 = Config]]
    /\ UNCHANGED <<aux_vars, program, clock, stateFile, server, req, owed>>

\* _run_sync: if not client.check_health(): ... return
WebHealth(n, answer) ==
    /\ pass[n].kind = "web"
    /\ pass[n].pc = "health"
    /\ LET h == check_health(answer)
           p == http_client([pass[n] EXCEPT !.healthAns = answer,
                                            !.healthRes = HealthRes(h)])
       IN IF h.raised
          THEN /\ pass' = [pass EXCEPT ![n] =
                        [Broadcast(p, "sync_error", 0) EXCEPT
                            !.pc = "finally", !.healthy = FALSE,
                            !.outcome = "error"]]
               /\ sync_state' = [sync_state EXCEPT !.error_message = "exception"]
          ELSE IF h.val
          THEN /\ pass' = [pass EXCEPT ![n] =
                        [Broadcast(p, "status_update", 0) EXCEPT !.pc = "read"]]
               /\ UNCHANGED sync_state
          ELSE /\ pass' = [pass EXCEPT ![n] =
                        [Broadcast(p, "sync_error", 0) EXCEPT
                            !.pc = "finally", !.healthy = FALSE,
                            !.outcome = "unhealthy"]]
               /\ sync_state' = [sync_state EXCEPT !.error_message = "health"]
    /\ req' = Some(health_request)
    /\ UNCHANGED <<aux_vars, program, clock, stateFile, server, owed>>

\* a value Python's "or" takes as true
Truthy(opt) == opt # None /\ opt[1] # 0

\* _run_sync: effective_since = since_timestamp or client.get_last_sync_time()
WebRead(n) ==
    /\ pass[n].kind = "web"
    /\ pass[n].pc = "read"
    /\ LET r == get_last_sync_time(stateFile)
       IN IF Truthy(pass[n].override)
          THEN /\ pass' = [pass EXCEPT ![n] =
                        [Broadcast(pass[n], "status_update", 0) EXCEPT
                            !.pc = "list", !.since = pass[n].override,
                            !.cursor0 = stateFile]]
               /\ UNCHANGED sync_state
          ELSE IF r.raised
          THEN /\ pass' = [pass EXCEPT ![n] =
                        [Broadcast(pass[n], "sync_error", 0) EXCEPT
                            !.pc = "finally", !.outcome = "error",
                            !.cursor0 = stateFile]]
               /\ sync_state' = [sync_state EXCEPT !.error_message = "exception"]
          ELSE /\ pass' = [pass EXCEPT ![n] =
                        [Broadcast(pass[n], "status_update", 0) EXCEPT
                            !.pc = "list", !.since = r.val,
                            !.cursor0 = stateFile]]
               /\ UNCHANGED sync_state
    /\ UNCHANGED <<aux_vars, program, clock, stateFile, server, req, owed>>

\* _run_sync: photos = client.list_photos(since=effective_since)
WebList(n, answer) ==
    /\ pass[n].kind = "web"
    /\ pass[n].pc = "list"
    /\ LET r == ListingRequest(pass[n])
           photos == ServerListing(server, r.wire)
           p == Listed(http_client(pass[n]), answer)
       IN /\ req' = Some(r)
          /\ owed' = OwedAfterListing(answer)
          /\ IF answer # "ok"
             THEN /\ pass' = [pass EXCEPT ![n] =
                        [Broadcast(p, "sync_error", 0) EXCEPT
                            !.pc = "finally", !.outcome = "list_failed"]]
                  /\ sync_state' = [sync_state EXCEPT !.error_message = "list"]
             ELSE /\ pass' = [pass EXCEPT ![n] =
                        [Broadcast(p, "photos_found", 0) EXCEPT
                            !.pc = "found", !.photos = photos]]
                  /\ sync_state' = [sync_state EXCEPT !.total_photos = Len(photos)]
    /\ UNCHANGED <<aux_vars, program, clock, stateFile, server>>

\* a loop that saves the cursor only when it has run through all photos
LoopHeadSavingAtEnd(n, p) ==
    IF Len(p.results) = Len(p.photos) \/ ~sync_state.is_syncing
    THEN /\ stateFile' = IF Len(p.results) = Len(p.photos)
                         THEN save_sync_time(p.T0[1]) ELSE stateFile
         /\ pass' = [pass EXCEPT ![n] =
                [Broadcast(p, "sync_complete", 0) EXCEPT
                          !.pc = "finally",
                          !.outcome = IF Len(p.results) = Len(p.photos)
                                      THEN "complete" ELSE "cancelled",
                          !.reported = Some(sync_state.downloaded_count),
                          !.wrote = IF Len(p.results) = Len(p.photos)
                                    THEN Some(p.T0[1]) ELSE None]]
         /\ UNCHANGED sync_state
    ELSE /\ pass' = [pass EXCEPT ![n] =
                [Broadcast(p, "downloading", Len(p.results) + 1) EXCEPT
                    !.pc = "download"]]
         /\ sync_state' = [sync_state EXCEPT !.current_photo = Len(p.results) + 1]
         /\ UNCHANGED stateFile

\* _run_sync: the head of "for i, photo in enumerate(photos)" and, when the
\* loop ends or breaks, client.save_sync_time(sync_start_time).  p is the
\* pass as it reaches the head.
LoopHead(n, p) ==
    IF Len(p.results) = Len(p.photos) \/ ~sync_state.is_syncing
    THEN /\ stateFile' = save_sync_time(p.T0[1])
         /\ pass' = [pass EXCEPT ![n] =
                [Broadcast(p, "sync_complete", 0) EXCEPT
                          !.pc = "finally",
                          !.outcome = IF Len(p.results) = Len(p.photos)
                                      THEN "complete" ELSE "cancelled",
                          !.reported = Some(sync_state.downloaded_count),
                          !.wrote = Some(p.T0[1])]]
         /\ UNCHANGED sync_state
    ELSE /\ pass' = [pass EXCEPT ![n] =
                [Broadcast(p, "downloading", Len(p.results) + 1) EXCEPT
                    !.pc = "download"]]
         /\ sync_state' = [sync_state EXCEPT !.current_photo = Len(p.results) + 1]
         /\ UNCHANGED stateFile

\* _run_sync after photos_found: the empty case, or
\* sync_start_time = datetime.now().timestamp() and the first loop head
WebFound(n) ==
    /\ pass[n].kind = "web"
    /\ pass[n].pc = "found"
    /\ IF pass[n].photos = <<>>
       THEN /\ pass' = [pass EXCEPT ![n] =
                    [Broadcast(pass[n], "sync_complete", 0) EXCEPT
                        !.pc = "finally", !.outcome = "empty",
                        !.reported = Some(0)]]
            /\ UNCHANGED <<stateFile, sync_state>>
       ELSE LoopHead(n, [pass[n] EXCEPT !.T0 = Some(clock)])
    /\ UNCHANGED <<aux_vars, program, clock, server, req, owed>>

\* _run_sync: result = client.download_photo(photo_id, photo) and the counters
WebDownload(n, fault) ==
    /\ pass[n].kind = "web"
    /\ pass[n].pc = "download"
    /\ LET k == next_photo(pass[n])
           result == download_photo(fault)
           p == [pass[n] EXCEPT !.results = Append(@, result),
                                !.requested = Append(@, k),
                                !.dirs = IF result = "saved"
                                         THEN Append(@, Config.DOWNLOAD_DIR)
                                         ELSE @]
       IN /\ fault \in DownloadFaults(k)
          /\ req' = Some(make_request("GET", download_path(k)))
          /\ IF result = "raised"
             THEN /\ pass' = [pass EXCEPT ![n] =
                        [Broadcast(p, "sync_error", 0) EXCEPT
                            !.pc = "finally", !.outcome = "error"]]
                  /\ sync_state' = [sync_state EXCEPT !.error_message = "exception"]
             ELSE /\ pass' = [pass EXCEPT ![n] =
                        [Broadcast(p, IF result = "saved" THEN "downloaded"
                                      ELSE "download_failed",
                                   sync_state.current_photo) EXCEPT
                            !.pc = "loop"]]
                  /\ sync_state' =
                        IF result = "saved"
                        THEN [sync_state EXCEPT !.downloaded_count = @ + 1]
                        ELSE [sync_state EXCEPT !.failed_count = @ + 1]
    /\ UNCHANGED <<aux_vars, program, clock, stateFile, server, owed>>

\* _run_sync after a per-item event: the next loop head
WebLoop(n) ==
    /\ pass[n].kind = "web"
    /\ pass[n].pc = "loop"
    /\ LoopHead(n, pass[n])
    /\ UNCHANGED <<aux_vars, program, clock, server, req, owed>>

\* a task that ends without its finally clause
WebFinallyKeepingFlag(n) ==
    /\ pass[n].kind = "web"
    /\ pass[n].pc = "finally"
    /\ pass' = [pass EXCEPT ![n] = NoPass]
    /\ UNCHANGED <<aux_vars, program, clock, stateFile, server, req, owed, sync_state>>

\* _run_sync: finally: sync_state.is_syncing = False; the task is over
WebFinally(n) ==
    /\ pass[n].kind = "web"
    /\ pass[n].pc = "finally"
    /\ sync_state' = [sync_state EXCEPT !.is_syncing = FALSE]
    /\ pass' = [pass EXCEPT ![n] = NoPass]
    /\ UNCHANGED <<aux_vars, program, clock, stateFile, server, req, owed>>

Next ==
    \/ Tick
    \/ CreatePhoto
    \/ \E kind \in {"sync", "run_sync"}, answer \in HealthAnswers : CliStart(kind, answer)
    \/ \E n \in Slots : CliHealth(n)
    \/ \E n \in Slots : CliRead(n)
    \/ \E n \in Slots, answer \in ListAnswers : CliList(n, answer)
    \/ \E n \in Slots, fault \in RegularFaults \cup LiveFaults : CliDownload(n, fault)
    \/ \E n \in Slots : CliSave(n)
    \/ \E date \in SinceDates : start_sync(date, Slots)
    \/ cancel_sync
    \/ \E n \in Slots : WebBegin(n)
    \/ \E n \in Slots, answer \in HealthAnswers : WebHealth(n, answer)
    \/ \E n \in Slots : WebRead(n)
    \/ \E n \in Slots, answer \in ListAnswers : WebList(n, answer)
    \/ \E n \in Slots : WebFound(n)
    \/ \E n \in Slots, fault \in RegularFaults \cup LiveFaults : WebDownload(n, fault)
    \/ \E n \in Slots : WebLoop(n)
    \/ \E n \in Slots : WebFinally(n)

Spec == Init /\ [][Next]_vars

\* A step of a pass: of run_sync / sync() in the CLI's thread, of a
\* _run_sync task in the event loop.
PassStep ==
    \/ \E n \in Slots : CliHealth(n) \/ CliRead(n) \/ CliSave(n)
    \/ \E n \in Slots, answer \in ListAnswers : CliList(n, answer)
    \/ \E n \in Slots, fault \in RegularFaults \cup LiveFaults : CliDownload(n, fault)
    \/ \E n \in Slots :
            WebBegin(n) \/ WebRead(n) \/ WebFound(n) \/ WebLoop(n) \/ WebFinally(n)
    \/ \E n \in Slots, answer \in HealthAnswers : WebHealth(n, answer)
    \/ \E n \in Slots, answer \in ListAnswers : WebList(n, answer)
    \/ \E n \in Slots, fault \in RegularFaults \cup LiveFaults : WebDownload(n, fault)

\* The passes under their scheduling, against a server that holds its
\* photos from the start: the CLI's thread runs on, the event loop runs
\* every task that is ready, and every request of the transport returns or
\* fails within Config.REQUEST_TIMEOUT, so a pass that has a step to take
\* takes it.
LiveInit ==
    /\ program \in {"cli", "web"}
    /\ clock = StartTime
    /\ stateFile \in {FileAbsent, FileNonObject, FileCursor(StartTime)}
    /\ server = [k \in 1..MaxPhotos |-> StartTime - 1]
    /\ pass = [n \in TaskSlots |-> NoPass]
    /\ req = None
    /\ owed = None
    /\ sync_state = SyncState
    /\ AuxIdle

LiveNext ==
    \/ \E kind \in {"sync", "run_sync"}, answer \in HealthAnswers : CliStart(kind, answer)
    \/ \E date \in SinceDates : start_sync(date, Slots)
    \/ cancel_sync
    \/ PassStep

LiveSpec == LiveInit /\ [][LiveNext]_vars /\ WF_vars(PassStep)

\* ------------------------------------------------- requests during a pass
\* The web client with room for a second task: a server that holds its
\* photos from the start and answers every request (a download with the
\* file or with an error status), start requests without a date, cancel
\* requests, and the steps of the tasks in every order.  The clock moves
\* once, which tells a time sampled before from a time sampled after.
RaceInit ==
    /\ program = "web"
    /\ clock = StartTime
    /\ stateFile = FileAbsent
    /\ server = [k \in 1..MaxPhotos |-> StartTime - 1]
    /\ pass = [n \in TaskSlots |-> NoPass]
    /\ req = None
    /\ owed = None
    /\ sync_state = SyncState
    /\ AuxIdle

RaceNext ==
    \/ clock = StartTime /\ Tick
    \/ start_sync([k |-> "absent", ts |-> 0], TaskSlots)
    \/ cancel_sync
    \/ \E n \in TaskSlots : WebBegin(n)
    \/ \E n \in TaskSlots : WebHealth(n, "200")
    \/ \E n \in TaskSlots : WebRead(n)
    \/ \E n \in TaskSlots : WebList(n, "ok")
    \/ \E n \in TaskSlots : WebFound(n)
    \/ \E n \in TaskSlots, fault \in {"ok", "status_error"} : WebDownload(n, fault)
    \/ \E n \in TaskSlots : WebLoop(n)
    \/ \E n \in TaskSlots : WebFinally(n)

RaceSpec == RaceInit /\ [][RaceNext]_vars

\* No client is running: the state in which a component is run on its own.
ClientIdle ==
    /\ program = "none"
    /\ clock = StartTime
    /\ stateFile = FileAbsent
    /\ server = <<>>
    /\ pass = [n \in TaskSlots |-> NoPass]
    /\ req = None
    /\ owed = None
    /\ sync_state = SyncState
    /\ AppIdle

pass_vars == <<program, clock, stateFile, server, pass, req, owed, sync_state>>

client_vars == <<pass_vars, manager, sending, Config>>

\* ------------------------------------------- configuration during a pass
\* what POST /api/config can carry: each key absent or with a value
ServerUrls == {"localhost", "elsewhere"}

DownloadDirs == {"downloads", "elsewhere"}

ConfigData ==
    [download_dir : {None} \cup {Some(d) : d \in DownloadDirs},
     server_url : {None} \cup {Some(u) : u \in ServerUrls}]

\* update_config: POST /api/config, after its await request.json(); mkdir
\* is how creating the new directory goes
update_config(data, mkdir) ==
    /\ program = "web"
    /\ mkdir \in {"ok", "raised"}
    /\ Config' =
            IF data.download_dir # None /\ mkdir = "raised" THEN Config
            ELSE [SERVER_URL |-> IF data.server_url # None
                                 THEN data.server_url[1] ELSE Config.SERVER_URL,
                  DOWNLOAD_DIR |-> IF data.download_dir # None
                                   THEN data.download_dir[1]
                                   ELSE Config.DOWNLOAD_DIR]
    /\ UNCHANGED <<pass_vars, comp_vars, manager, sending>>

\* The web client with one pass at a time and configuration requests between
\* its steps: a server that holds its photos from the start and answers
\* every request.
ConfigInit ==
    /\ program = "web"
    /\ clock = StartTime
    /\ stateFile = FileAbsent
    /\ server = [k \in 1..MaxPhotos |-> StartTime - 1]
    /\ pass = [n \in TaskSlots |-> NoPass]
    /\ req = None
    /\ owed = None
    /\ sync_state = SyncState
    /\ AuxIdle

ConfigNext ==
    \/ \E data \in ConfigData, mkdir \in {"ok", "raised"} : update_config(data, mkdir)
    \/ start_sync([k |-> "absent", ts |-> 0], Slots)
    \/ \E n \in Slots : WebBegin(n)
    \/ \E n \in Slots : WebHealth(n, "200")
    \/ \E n \in Slots : WebRead(n)
    \/ \E n \in Slots : WebList(n, "ok")
    \/ \E n \in Slots : WebFound(n)
    \/ \E n \in Slots, fault \in {"ok", "status_error"} : WebDownload(n, fault)
    \/ \E n \in Slots : WebLoop(n)
    \/ \E n \in Slots : WebFinally(n)

ConfigSpec == ConfigInit /\ [][ConfigNext]_vars

\* ------------------------------------------------------------ file names
\* invalid_chars of _sanitize_filename
InvalidCharsPosix == <<"/">>

InvalidChars == <<"<", ">", ":", "\"", "/", "\\", "|", "?", "*">>

\* str.replace(old, new) for one-character strings
Replace(s, old, new) == [i \in 1..Len(s) |-> IF s[i] = old THEN new ELSE s[i]]

\* _sanitize_filename: for char in invalid_chars: filename = filename.replace(char, "_")
RECURSIVE SanitizeFrom(_, _)
SanitizeFrom(filename, i) ==
    IF i > Len(InvalidChars) THEN filename
    ELSE SanitizeFrom(Replace(filename, InvalidChars[i], "_"), i + 1)

sanitize_filename(filename) == SanitizeFrom(filename, 1)

\* The names _sanitize_filename is applied to: every string of at most
\* MaxNameLen characters over NameChars, and the name of the test.
MaxNameLen == 2

NameChars == Range(InvalidChars) \cup {"_", "a", "."}

Strings(chars, n) == UNION {[1..k -> chars] : k \in 0..n}

TestName ==
    <<"p", "h", "o", "t", "o", "<", ">", ":", "\"", "/", "\\", "|", "?", "*",
      ".", "j", "p", "g">>

SanitizeInputs == Strings(NameChars, MaxNameLen) \cup {TestName}

Sanitize(filename) ==
    /\ call = NoCall
    /\ call' = [fn |-> "sanitize", arg |-> filename,
                out |-> sanitize_filename(filename),
                again |-> sanitize_filename(sanitize_filename(filename))]
    /\ UNCHANGED <<client_vars, dir, dl, disk, wr, rd>>

SanitizeInit == ClientIdle /\ AuxIdle

SanitizeNext == \E filename \in SanitizeInputs : Sanitize(filename)

SanitizeSpec == SanitizeInit /\ [][SanitizeNext]_vars

\* ---------------------------------------------------- download directory
\* index of the last occurrence of character c in s, 0 when absent (str.rfind + 1)
LastIndex(s, c) ==
    IF \E i \in 1..Len(s) : s[i] = c
    THEN CHOOSE i \in 1..Len(s) : s[i] = c /\ \A j \in (i + 1)..Len(s) : s[j] # c
    ELSE 0

\* pathlib: PurePath.suffix, from the last "." of the name unless the name
\* starts or ends with it, and PurePath.stem, the name without the suffix
Suffix(name) ==
    LET i == LastIndex(name, ".")
    IN IF 1 < i /\ i < Len(name) THEN SubSeq(name, i, Len(name)) ELSE <<>>

Stem(name) == SubSeq(name, 1, Len(name) - Len(Suffix(name)))

\* a name with the counter put after the extension
with_counter_appended(base, counter) == base \o <<"_">> \o Format(counter)

\* base_path.with_name(f"{stem}_{counter}{suffix}")
with_counter(base, counter) ==
    Stem(base) \o <<"_">> \o Format(counter) \o Suffix(base)

\* while output_path.exists(): ...; counter += 1
RECURSIVE ResolveFrom(_, _, _)
ResolveFrom(names, base, counter) ==
    IF with_counter(base, counter) \notin names THEN with_counter(base, counter)
    ELSE ResolveFrom(names, base, counter + 1)

\* a download that writes to the name it was given
output_path_overwriting(names, filename) == filename

\* the path a download writes to: the name itself when it is free, else the
\* first free name with a counter
output_path(names, filename) ==
    IF filename \notin names THEN filename ELSE ResolveFrom(names, filename, 1)

\* output_path.write_bytes(content): "ok"; "denied", the file cannot be
\* opened; "full", the file is created and the write fails
write_bytes(d, path, content, how) ==
    IF how = "denied" THEN d
    ELSE [name \in DOMAIN d \cup {path} |->
            IF name = path THEN (IF how = "ok" THEN content ELSE <<>>)
            ELSE d[name]]

\* ------------------------------------------------------ regular download
\* creationDate of the metadata: an ISO 8601 date, or text that is none
IsoDate ==
    <<"2", "0", "2", "4", "-", "0", "1", "-", "1", "5", "T",
      "1", "0", ":", "3", "0", ":", "0", "0", "Z">>

BadDate == <<"n", "o", "t", "-", "a", "-", "d", "a", "t", "e">>

\* creation_date.replace("Z", "+00:00")
RECURSIVE ReplaceZ(_)
ReplaceZ(s) ==
    IF s = <<>> THEN <<>>
    ELSE (IF Head(s) = "Z" THEN <<"+", "0", "0", ":", "0", "0">> ELSE <<Head(s)>>)
         \o ReplaceZ(Tail(s))

\* datetime.fromisoformat: YYYY-MM-DDTHH:MM:SS with an optional +HH:MM;
\* anything else is a ValueError
fromisoformat(s) ==
    LET seps == [i \in {5, 8, 11, 14, 17} |->
                    IF i \in {5, 8} THEN "-" ELSE IF i = 11 THEN "T" ELSE ":"]
        ok == /\ Len(s) \in {19, 25}
              /\ \A i \in 1..19 :
                    IF i \in DOMAIN seps THEN s[i] = seps[i] ELSE IsDigit(s[i])
              /\ Len(s) = 25 =>
                    /\ s[20] \in {"+", "-"}
                    /\ s[23] = ":"
                    /\ \A i \in {21, 22, 24, 25} : IsDigit(s[i])
    IN IF ok
       THEN [ok |-> TRUE, date |-> SubSeq(s, 1, 4) \o SubSeq(s, 6, 7) \o SubSeq(s, 9, 10),
             time |-> SubSeq(s, 12, 13) \o SubSeq(s, 15, 16) \o SubSeq(s, 18, 19)]
       ELSE [ok |-> FALSE, date |-> <<>>, time |-> <<>>]

\* dt.strftime("%Y%m%d_%H%M%S")
strftime(dt) == dt.date \o <<"_">> \o dt.time

S_mp4 == <<".", "m", "p", "4">>
S_jpg == <<".", "j", "p", "g">>

\* a naming that prefers the creation date to the name the server sent
regular_filename_date_first(resp) ==
    IF resp.creation # <<>> /\ fromisoformat(ReplaceZ(resp.creation)).ok
    THEN strftime(fromisoformat(ReplaceZ(resp.creation))) \o S_jpg
    ELSE IF resp.original # None THEN resp.original[1]
    ELSE Replace(PhotoId(resp.id), "/", "_") \o S_jpg

\* _download_regular_photo: the name before it is sanitized, for a response
\* resp to the download of photo resp.id whose metadata has creationDate
\* resp.creation (empty when it has none).  Not defined when the date does
\* not parse: see RegularFault.
regular_filename(resp) ==
    IF resp.original # None /\ resp.original[1] # <<>> THEN resp.original[1]
    ELSE (IF resp.creation # <<>>
          THEN strftime(fromisoformat(ReplaceZ(resp.creation)))
          ELSE Replace(PhotoId(resp.id), "/", "_"))
         \o (IF resp.media = Some("video") THEN S_mp4 ELSE S_jpg)

\* what happens to a regular download, in the terms of RegularFaults
RegularFault(resp) ==
    IF resp.http # "ok" THEN resp.http
    ELSE IF /\ resp.original = None \/ resp.original[1] = <<>>
            /\ resp.creation # <<>>
            /\ ~fromisoformat(ReplaceZ(resp.creation)).ok
    THEN "bad_creation_date"
    ELSE IF resp.write # "ok" THEN "write_error"
    ELSE "ok"

\* The responses to a regular download: the transport's outcome, the headers
\* X-Original-Filename and X-Media-Type, the body, with the photo's
\* identifier and creationDate and what write_bytes will do.
N_img == <<"I", ".", "j", "p", "g">>
N_odd == <<"a", "?", "b">>

RegularResponse(http, original, media, content, creation, id, write) ==
    [http |-> http, original |-> original, media |-> media,
     content |-> content, creation |-> creation, id |-> id, write |-> write]

Contents == {<<"x">>, <<"y">>}

RegularResponses ==
    {RegularResponse("ok", Some(N_img), Some("image"), content, IsoDate, 1, "ok") :
        content \in Contents}
    \cup {RegularResponse("ok", Some(N_odd), Some("video"), <<"x">>, <<>>, 1, "ok")}
    \cup {RegularResponse("ok", None, media, <<"x">>, IsoDate, 1, "ok") :
        media \in {None, Some("video")}}
    \cup {RegularResponse("ok", Some(<<>>), media, <<"x">>, IsoDate, 1, "ok") :
        media \in {Some("image"), Some("video")}}
    \cup {RegularResponse("ok", None, Some("image"), <<"y">>, <<>>, 1, "ok"),
          RegularResponse("ok", None, Some("video"), <<"y">>, <<>>, 2, "ok")}
    \cup {RegularResponse("ok", None, None, <<"x">>, BadDate, 1, "ok")}
    \cup {RegularResponse("ok", Some(N_img), None, <<"y">>, BadDate, 1, write) :
        write \in {"ok", "denied", "full"}}
    \cup {RegularResponse(http, Some(N_img), None, <<>>, IsoDate, 1, "ok") :
        http \in {"status_error", "connect_error"}}

\* the number of files the directory comes to hold
MaxFiles == 3

\* _download_regular_photo
download_regular_photo(resp) ==
    /\ Cardinality(DOMAIN dir) < MaxFiles
    /\ LET fault == RegularFault(resp)
           result == download_photo(fault)
           filename == sanitize_filename(regular_filename(resp))
           path == output_path(DOMAIN dir, filename)
       IN IF fault \in {"ok", "write_error"}
          THEN /\ dir' = write_bytes(dir, path, resp.content, resp.write)
               /\ dl' = [kind |-> "regular", input |-> resp, before |-> dir,
                         result |-> result,
                         path |-> IF result = "saved" THEN Some(path) ELSE None,
                         written |-> IF resp.write = "denied" THEN <<>> ELSE <<path>>]
          ELSE /\ dir' = dir
               /\ dl' = [kind |-> "regular", input |-> resp, before |-> dir,
                         result |-> result, path |-> None, written |-> <<>>]
    /\ UNCHANGED <<client_vars, call, disk, wr, rd>>

\* --------------------------------------------------------- live download
\* A header value, a header block or a body is a sequence of tokens: the
\* line break, the words the parser looks for, and single characters.
CRLF == "<CRLF>"

\* s[i..] starts with d
StartsWith(s, i, d) ==
    i + Len(d) - 1 <= Len(s) /\ SubSeq(s, i, i + Len(d) - 1) = d

\* s.split(d): the pieces of s between the occurrences of d
RECURSIVE SplitFrom(_, _, _, _)
SplitFrom(s, d, i, start) ==
    IF i > Len(s) THEN <<SubSeq(s, start, Len(s))>>
    ELSE IF StartsWith(s, i, d)
    THEN <<SubSeq(s, start, i - 1)>> \o SplitFrom(s, d, i + Len(d), i + Len(d))
    ELSE SplitFrom(s, d, i + 1, start)

Split(s, d) == SplitFrom(s, d, 1, 1)

\* str.strip()
RECURSIVE Strip(_)
Strip(s) ==
    IF s # <<>> /\ Head(s) = " " THEN Strip(Tail(s))
    ELSE IF s # <<>> /\ s[Len(s)] = " " THEN Strip(SubSeq(s, 1, Len(s) - 1))
    ELSE s

\* a parser that goes on without a boundary parameter
no_boundary_ignored(content_type) == FALSE

\* if "boundary=" not in content_type
no_boundary(content_type) == "boundary=" \notin Range(content_type)

\* content_type.split("boundary=")[1].strip()
boundary_of(content_type) ==
    LET pieces == Split(content_type, <<"boundary=">>)
    IN IF Len(pieces) < 2 THEN <<>> ELSE Strip(pieces[2])

\* part.find(b"\r\n\r\n") + 1: the first empty line, 0 when there is none
header_end(part) ==
    IF \E i \in 1..(Len(part) - 1) : part[i] = CRLF /\ part[i + 1] = CRLF
    THEN CHOOSE i \in 1..(Len(part) - 1) :
            /\ part[i] = CRLF /\ part[i + 1] = CRLF
            /\ \A j \in 1..(i - 1) : ~(part[j] = CRLF /\ part[j + 1] = CRLF)
    ELSE 0

\* a parser that keeps the line break before the next boundary
strip_crlf_kept(content) == content

\* if content.endswith(b"\r\n"): content = content[:-2]
strip_crlf(content) ==
    IF content # <<>> /\ content[Len(content)] = CRLF
    THEN SubSeq(content, 1, Len(content) - 1)
    ELSE content

\* The filename of a header block: the first line holding filename= decides;
\* line.split('filename="')[1].split('"')[0], an IndexError when the value
\* is not quoted.  [raised, name], the name empty when no line has one.
part_filename(headers) ==
    LET lines == Split(headers, <<CRLF>>)
        holds(i) == "filename=" \in Range(lines[i])
    IN IF \A i \in 1..Len(lines) : ~holds(i)
       THEN [raised |-> FALSE, name |-> <<>>]
       ELSE LET i == CHOOSE k \in 1..Len(lines) :
                        holds(k) /\ \A j \in 1..(k - 1) : ~holds(j)
                pieces == Split(lines[i], <<"filename=", "\"">>)
            IN IF Len(pieces) < 2 THEN [raised |-> TRUE, name |-> <<>>]
               ELSE [raised |-> FALSE, name |-> Split(pieces[2], <<"\"">>)[1]]

\* _download_live_photo: for part in parts, from part i on, with the
\* directory d and the files saved so far.  [dir, saved, raised]
RECURSIVE save_parts(_, _, _, _, _)
save_parts(parts, i, d, saved, how) ==
    IF i > Len(parts) THEN [dir |-> d, saved |-> saved, raised |-> "no"]
    ELSE LET part == parts[i]
             at == header_end(part)
             headers == SubSeq(part, 1, at - 1)
             content == strip_crlf(SubSeq(part, at + 2, Len(part)))
             named == part_filename(headers)
             path == output_path(DOMAIN d, sanitize_filename(named.name))
         IN IF "Content-Disposition" \notin Range(part) \/ at = 0
            THEN save_parts(parts, i + 1, d, saved, how)
            ELSE IF named.raised
            THEN [dir |-> d, saved |-> saved, raised |-> "IndexError"]
            ELSE IF named.name = <<>> \/ content = <<>>
            THEN save_parts(parts, i + 1, d, saved, how)
            ELSE IF how # "ok"
            THEN [dir |-> write_bytes(d, path, content, how), saved |-> saved,
                  raised |-> "OSError"]
            ELSE save_parts(parts, i + 1, write_bytes(d, path, content, how),
                            Append(saved, path), how)

\* The server's live-photo response: each part is a filename and its bytes,
\* framed as Content-Disposition: form-data; name="..."; filename="...",
\* a Content-Type line, an empty line, the bytes and a line break.
Part(filename, content, style) ==
    [filename |-> filename, content |-> content, style |-> style]

PartBytes(part) ==
    <<CRLF>>
    \o (IF part.style = "quoted"
        THEN <<"Content-Disposition", ": form-data; name=", "\"", "f", "\"", "; ",
               "filename=", "\"">> \o part.filename \o <<"\"", CRLF>>
        ELSE IF part.style = "unquoted"
        THEN <<"Content-Disposition", ": form-data; ", "filename=">>
             \o part.filename \o <<CRLF>>
        ELSE <<>>)
    \o <<"Content-Type: ", "x", CRLF, CRLF>> \o part.content \o <<CRLF>>

RECURSIVE MultipartFrom(_, _, _)
MultipartFrom(parts, boundary, i) ==
    IF i > Len(parts) THEN <<"--">> \o boundary \o <<"--", CRLF>>
    ELSE <<"--">> \o boundary \o PartBytes(parts[i])
         \o MultipartFrom(parts, boundary, i + 1)

MultipartBody(parts, boundary) == MultipartFrom(parts, boundary, 1)

S_boundary == <<"B", "1">>

ContentTypeMultipart == <<"multipart/form-data", ";", " ", "boundary=">> \o S_boundary

ContentTypePlain == <<"multipart/form-data">>

N_heic == <<"I", ".", "h">>
N_mov == <<"I", ".", "m">>

LiveResponse(http, content_type, parts, write) ==
    [http |-> http, content_type |-> content_type, parts |-> parts,
     body |-> MultipartBody(parts, S_boundary), write |-> write]

\* The responses to a live-photo download.
LiveResponses ==
    {LiveResponse("ok", ContentTypeMultipart,
                  <<Part(N_heic, c1, "quoted"), Part(second, <<"y">>, "quoted")>>, "ok") :
        second \in {N_heic, N_mov, N_odd}, c1 \in {<<"x">>, <<"x", CRLF>>}}
    \cup {LiveResponse("ok", content_type,
                  <<Part(N_heic, <<"x">>, "quoted"), Part(N_mov, <<"y">>, "quoted")>>, "ok") :
        content_type \in {ContentTypePlain, <<>>}}
    \cup {LiveResponse("ok", ContentTypeMultipart,
                  <<Part(N_heic, <<"x">>, "unquoted"), Part(N_mov, <<"y">>, "quoted")>>, "ok")}
    \cup {LiveResponse("ok", ContentTypeMultipart,
                  <<Part(N_heic, <<"x">>, "none"), Part(N_mov, c2, "quoted")>>, "ok") :
        c2 \in {<<"y">>, <<>>}}
    \cup {LiveResponse("ok", ContentTypeMultipart,
                  <<Part(N_heic, <<"x">>, "quoted"), Part(N_mov, <<"y">>, "quoted")>>, write) :
        write \in {"denied", "full"}}
    \cup {LiveResponse(http, <<>>, <<>>, "ok") :
        http \in {"status_error", "connect_error"}}

\* what happens to a live download, in the terms of LiveFaults
LiveFault(resp, done) ==
    IF resp.http # "ok" THEN resp.http
    ELSE IF no_boundary(resp.content_type) THEN "no_boundary"
    ELSE IF done.raised = "IndexError" THEN "bad_disposition"
    ELSE IF done.raised = "OSError" THEN "write_error"
    ELSE IF done.saved = <<>> THEN "no_parts"
    ELSE "ok"

\* _download_live_photo
download_live_photo(resp) ==
    /\ Cardinality(DOMAIN dir) + Len(resp.parts) <= MaxFiles
    /\ LET parts == Split(resp.body, <<"--">> \o boundary_of(resp.content_type))
           done == IF resp.http # "ok" \/ no_boundary(resp.content_type)
                   THEN [dir |-> dir, saved |-> <<>>, raised |-> "no"]
                   ELSE save_parts(parts, 1, dir, <<>>, resp.write)
           result == download_photo(LiveFault(resp, done))
       IN /\ dir' = done.dir
          /\ dl' = [kind |-> "live", input |-> resp, before |-> dir,
                    result |-> result,
                    path |-> IF result = "saved" THEN Some(done.saved[1]) ELSE None,
                    written |-> done.saved]
    /\ UNCHANGED <<client_vars, call, disk, wr, rd>>

\* The directory as a run finds it: empty, or holding the file of the test.
FilesInit ==
    /\ ClientIdle
    /\ call = NoCall
    /\ dir \in {EmptyDir, [name \in {N_img} |-> <<"o", "l", "d">>]}
    /\ dl = NoDownload
    /\ StoreIdle

FilesNext ==
    \/ \E resp \in RegularResponses : download_regular_photo(resp)
    \/ \E resp \in LiveResponses : download_live_photo(resp)

FilesSpec == FilesInit /\ [][FilesNext]_vars

\* ------------------------------------------------- state file, as text
S_key == "\"last_sync_timestamp\""

IsDigits(s) == s # <<>> /\ \A i \in 1..Len(s) : IsDigit(s[i])

\* json.dumps({"last_sync_timestamp": timestamp})
json_dumps(timestamp) == <<"{", S_key, ":", " ">> \o Format(timestamp) \o <<"}">>

\* json.loads(text), as far as get_last_sync_time tells its results apart:
\* a JSONDecodeError, a value that is not an object, an object without the
\* key, an object with it
json_loads(text) ==
    IF IsDigits(text) \/ text \in {<<"[", "]">>, <<"n", "u", "l", "l">>}
    THEN [kind |-> "other", value |-> 0]
    ELSE IF text = <<"{", "}">> THEN [kind |-> "object", value |-> 0]
    ELSE IF /\ Len(text) > 5
            /\ SubSeq(text, 1, 4) = <<"{", S_key, ":", " ">>
            /\ text[Len(text)] = "}"
            /\ IsDigits(SubSeq(text, 5, Len(text) - 1))
    THEN [kind |-> "record", value |-> ParseNat(SubSeq(text, 5, Len(text) - 1))]
    ELSE [kind |-> "error", value |-> 0]

\* what get_last_sync_time finds in the state file
FileOf(d) ==
    IF ~d.exists THEN FileAbsent
    ELSE LET state == json_loads(d.text)
         IN IF state.kind = "error" THEN FileGarbage
            ELSE IF state.kind = "other" THEN FileNonObject
            ELSE IF state.kind = "object" THEN FileNoKey
            ELSE FileCursor(state.value)

\* web/app.py _get_last_sync_timestamp: any exception gives None
get_last_sync_timestamp(f) ==
    IF f.k = "cursor" THEN [raised |-> FALSE, val |-> Some(f.ts)]
    ELSE [raised |-> FALSE, val |-> None]

\* an open that keeps what the file holds (mode "a")
open_appending(d) == FileText(d.text)

\* write_text: open(mode="w") creates the file or empties it
open_w(d) == FileText(<<>>)

\* the values saved: one and two digits long
MaxCursor == 10

SaveValues == {0, MaxCursor - 1, MaxCursor}

\* the contents another program or a crash can leave in the state file
StateTexts ==
    {<<>>, <<"n", "o", "t", " ", "j", "s", "o", "n">>, <<"5">>, <<"[", "]">>,
     <<"n", "u", "l", "l">>, <<"{", "}">>, json_dumps(StartTime - 1)}

\* save_sync_time, first half: STATE_FILE.write_text opens the file
SaveOpen(timestamp) ==
    /\ wr.pc = "idle"
    /\ disk' = open_w(disk)
    /\ wr' = [wr EXCEPT !.pc = "opened", !.value = timestamp, !.before = disk]
    /\ UNCHANGED <<client_vars, call, dir, dl, rd>>

\* save_sync_time, second half: the text is written and the file closed
SaveWrite ==
    /\ wr.pc = "opened"
    /\ disk' = FileText(disk.text \o json_dumps(wr.value))
    /\ wr' = [wr EXCEPT !.pc = "idle", !.saved = Some(wr.value)]
    /\ UNCHANGED <<client_vars, call, dir, dl, rd>>

\* A read of the state file by a process of its own: a client's
\* get_last_sync_time, or the web handler's _get_last_sync_timestamp.
ReadState(kind) ==
    /\ rd' = [kind |-> kind,
              during |-> wr.pc = "opened",
              raw |-> disk,
              res |-> IF kind = "client" THEN get_last_sync_time(FileOf(disk))
                      ELSE get_last_sync_timestamp(FileOf(disk)),
              before |-> IF wr.pc = "opened" THEN wr.before ELSE NoFile,
              after |-> IF wr.pc = "opened" THEN FileText(json_dumps(wr.value))
                        ELSE NoFile,
              saved |-> IF wr.pc = "opened" THEN None ELSE wr.saved]
    /\ UNCHANGED <<client_vars, call, dir, dl, disk, wr>>

StoreInit ==
    /\ ClientIdle
    /\ call = NoCall
    /\ FilesIdle
    /\ disk \in {NoFile} \cup {FileText(text) : text \in StateTexts}
    /\ wr = NoSave
    /\ rd = NoRead

StoreNext ==
    \/ \E timestamp \in SaveValues : SaveOpen(timestamp)
    \/ SaveWrite
    \/ \E kind \in {"client", "web"} : ReadState(kind)

StoreSpec == StoreInit /\ [][StoreNext]_vars

\* ------------------------------------------------------- request signing
\* time.time() is a float: the clock is counted in ticks, TicksPerSecond of
\* them in a second, and int() drops the fraction
TicksPerSecond == 2

int_time(now) == now \div TicksPerSecond

\* default of verify_signature's max_age_seconds
max_age_seconds == 300

NUL == "<NUL>"

\* hmac.new(key=...): a key shorter than the block of SHA-256 (64 bytes) is
\* padded with NUL bytes to the block, so a key and the key followed by NUL
\* bytes are one key; here: the key without its trailing NUL bytes.  (A key
\* longer than the block is hashed first; the secrets here are shorter.)
RECURSIVE hmac_key(_)
hmac_key(key) ==
    IF key # <<>> /\ key[Len(key)] = NUL
    THEN hmac_key(SubSeq(key, 1, Len(key) - 1))
    ELSE key

\* a message that leaves the method out
message_without_method(method, path, timestamp) == path \o <<":">> \o timestamp

\* message = f"{method}:{path}:{timestamp}"
message(method, path, timestamp) ==
    method \o <<":">> \o path \o <<":">> \o timestamp

\* hmac.new(key, msg, hashlib.sha256).hexdigest(): a string of lower-case hex
\* digits that stands for the padded key and the message, SHA-256 taken as
\* free of collisions.  A string: whether it is ASCII, whether its letters
\* are upper case, and what it reads.
hexdigest(key, msg) ==
    [ascii |-> TRUE, upper |-> FALSE, text |-> <<hmac_key(key), msg>>]

\* str.lower()
lower(s) == [s EXCEPT !.upper = FALSE]

\* generate_auth_headers(method, path, shared_secret) called when the clock
\* reads now: the values of X-Timestamp and X-Signature
auth_headers(method, path, shared_secret, now) ==
    LET timestamp == Format(int_time(now))
    IN [timestamp |-> timestamp,
        signature |-> hexdigest(shared_secret, message(method, path, timestamp))]

\* an int() that takes no string
int_rejecting(timestamp) == None

\* int(timestamp): None stands for ValueError.  (The strings here are
\* decimal digits or hold a letter; int() also takes a sign, surrounding
\* blanks and "_" between digits.)
int_parse(timestamp) ==
    IF timestamp # <<>> /\ \A i \in 1..Len(timestamp) : IsDigit(timestamp[i])
    THEN Some(ParseNat(timestamp))
    ELSE None

\* an age check that rejects at the limit
too_old_at_limit(current_time, request_time, max_age) ==
    (IF current_time >= request_time THEN current_time - request_time
     ELSE request_time - current_time) >= max_age

\* abs(current_time - request_time) > max_age_seconds
too_old(current_time, request_time, max_age) ==
    (IF current_time >= request_time THEN current_time - request_time
     ELSE request_time - current_time) > max_age

\* hmac.compare_digest(a, b) for two str: TypeError when one of them holds a
\* character that is not ASCII
compare_digest(a, b) ==
    IF ~a.ascii \/ ~b.ascii THEN [raised |-> TRUE, val |-> FALSE]
    ELSE [raised |-> FALSE, val |-> a = b]

\* verify_signature, called when the clock reads now: [raised, val]
verify_signature(method, path, timestamp, signature, shared_secret, max_age, now) ==
    LET request_time == int_parse(timestamp)
        current_time == int_time(now)
        expected_signature ==
            hexdigest(shared_secret, message(method, path, timestamp))
    IN IF request_time = None THEN [raised |-> FALSE, val |-> FALSE]
       ELSE IF too_old(current_time, request_time[1], max_age)
       THEN [raised |-> FALSE, val |-> FALSE]
       ELSE compare_digest(lower(signature), lower(expected_signature))

\* The calls made: two methods, two paths, a secret, the same secret
\* followed by a NUL character and another secret; signing at the start and
\* in the middle of a second; verifying, with the default age limit and with
\* twice that, from before the timestamp (a clock that is behind) to after
\* it, at both limits, one second beyond them, and within the second.
Methods == {<<"G", "E", "T">>, <<"P", "O", "S", "T">>}

Paths == {S_photos, S_photos \o <<"/", "1">>}

Secrets == {<<"s">>, <<"s", NUL>>, <<"t">>}

MaxAges == {max_age_seconds, 2 * max_age_seconds}

SignSecond == 3 * max_age_seconds

SignTimes == {SignSecond * TicksPerSecond + f : f \in {0, TicksPerSecond - 1}}

VerifyTimes ==
    {(SignSecond + d) * TicksPerSecond + f :
        d \in UNION {{0 - a - 1, 0 - a, 0, a, a + 1} : a \in MaxAges},
        f \in {0, TicksPerSecond - 1}}

\* the X-Timestamp handed to verify_signature: the one signed, or text that
\* is no number
TimestampKinds == {"signed", "text"}

Timestamp(headers, kind) ==
    IF kind = "signed" THEN headers.timestamp ELSE <<"x">>

\* the X-Signature handed to verify_signature: the one signed, the same in
\* upper case, "invalid-signature", or a string with a character outside
\* ASCII
SignatureKinds == {"signed", "upper", "invalid", "nonascii"}

Signature(headers, kind) ==
    IF kind = "signed" THEN headers.signature
    ELSE IF kind = "upper" THEN [headers.signature EXCEPT !.upper = TRUE]
    ELSE IF kind = "invalid"
    THEN [ascii |-> TRUE, upper |-> FALSE, text |-> << <<"i", "n", "v">> >>]
    ELSE [ascii |-> FALSE, upper |-> FALSE, text |-> << <<"e", "'">> >>]

Sign(method, path, shared_secret, now) ==
    /\ call.fn = "none"
    /\ call' = [fn |-> "sign",
                arg |-> [method |-> method, path |-> path,
                         secret |-> shared_secret, now |-> now],
                out |-> auth_headers(method, path, shared_secret, now),
                again |-> <<>>]
    /\ UNCHANGED <<client_vars, dir, dl, disk, wr, rd>>

\* verify_signature applied to a request that was signed: signed and headers
\* are what generate_auth_headers was given and what it returned
Verify(method, path, tkind, skind, shared_secret, max_age, now) ==
    /\ call.fn = "sign"
    /\ LET timestamp == Timestamp(call.out, tkind)
           signature == Signature(call.out, skind)
       IN call' = [fn |-> "verify",
                   arg |-> [signed |-> call.arg, headers |-> call.out,
                            method |-> method, path |-> path,
                            timestamp |-> timestamp, signature |-> signature,
                            secret |-> shared_secret, max_age |-> max_age,
                            now |-> now],
                   out |-> verify_signature(method, path, timestamp, signature,
                                            shared_secret, max_age, now),
                   again |-> <<>>]
    /\ UNCHANGED <<client_vars, dir, dl, disk, wr, rd>>

AuthInit == ClientIdle /\ AuxIdle

AuthNext ==
    \/ \E method \in Methods, path \in Paths, secret \in Secrets, now \in SignTimes :
            Sign(method, path, secret, now)
    \/ \E method \in Methods, path \in Paths, secret \in Secrets,
          max_age \in MaxAges, now \in VerifyTimes,
          tkind \in TimestampKinds, skind \in SignatureKinds :
            Verify(method, path, tkind, skind, secret, max_age, now)

AuthSpec == AuthInit /\ [][AuthNext]_vars

\* ------------------------------------------------------------- listeners
\* the websockets that may connect
MaxSockets == 3

Sockets == 1..MaxSockets

\* list.remove(x): the list without the first occurrence of x
Remove(list, x) ==
    LET i == FirstIndex(list, x)
    IN SubSeq(list, 1, i - 1) \o SubSeq(list, i + 1, Len(list))

\* "for connection in self.active_connections": the next step of the list
\* iterator, which reads the list as it is now at the iterator's index, and
\* the send_json call on the connection found there; the return when the
\* index has reached the end of the list
for_connection(b, list) ==
    IF b.index < Len(list)
    THEN [b EXCEPT !.pc = "sending", !.index = @ + 1,
                   !.sent = Append(@, list[b.index + 1])]
    ELSE [b EXCEPT !.pc = "returned"]

\* ConnectionManager.connect, for a websocket that has not connected before
connect(websocket) ==
    /\ websocket \notin manager.accepted
    /\ manager' = [manager EXCEPT
                       !.active_connections = Append(@, websocket),
                       !.accepted = @ \cup {websocket}]
    /\ UNCHANGED <<pass_vars, comp_vars, sending, Config>>

\* websocket_endpoint on WebSocketDisconnect: ConnectionManager.disconnect
disconnect(websocket) ==
    /\ websocket \in Range(manager.active_connections)
    /\ manager' = [manager EXCEPT
                       !.active_connections = Remove(@, websocket)]
    /\ sending' = [sending EXCEPT !.stayed = @ \ {websocket}]
    /\ UNCHANGED <<pass_vars, comp_vars, Config>>

\* ConnectionManager.broadcast, from the call to its first await
broadcast ==
    /\ sending.pc \in {"idle", "returned"}
    /\ sending' = for_connection(
            [NoBroadcast EXCEPT !.stayed = Range(manager.active_connections)],
            manager.active_connections)
    /\ UNCHANGED <<pass_vars, comp_vars, manager, Config>>

\* ConnectionManager.broadcast, resumed when send_json has returned or has
\* raised ("except: pass"), up to its next await or its return
send_json(outcome) ==
    /\ sending.pc = "sending"
    /\ sending' = for_connection(
            [sending EXCEPT !.raised = @ + (IF outcome = "raised" THEN 1 ELSE 0)],
            manager.active_connections)
    /\ UNCHANGED <<pass_vars, comp_vars, manager, Config>>

BroadcastInit == ClientIdle /\ AuxIdle

BroadcastNext ==
    \/ \E websocket \in Sockets : connect(websocket) \/ disconnect(websocket)
    \/ broadcast
    \/ \E outcome \in {"returned", "raised"} : send_json(outcome)

BroadcastSpec == BroadcastInit /\ [][BroadcastNext]_vars

\* ================================================================ claims
\* A pass that has run to its end: sync() has returned or raised; _run_sync
\* has reached its finally clause.
Ended(p) == p.pc \in {"done", "finally"}

IsCli(p) == p.kind \in {"sync", "run_sync"}

Count(results, what) == Cardinality({i \in 1..Len(results) : results[i] = what})

IsPrefix(a, b) == Len(a) <= Len(b) /\ SubSeq(b, 1, Len(a)) = a

\* C1: if the listing request of a pass fails with an HTTP status error, a
\* connection error or a timeout, the pass attempts no download, reports no
\* download (sync() returns 0, the web pass ends with its error event), and
\* does not write the cursor: after a CLI pass the state file is what it was
\* before the pass, so the next pass reads the same cursor.
C1_ListingFailureKeepsCursor ==
    \A n \in Slots :
        LET p == pass[n]
        IN p.listRes = "http_error" =>
            /\ Ended(p)
            /\ p.outcome = "list_failed"
            /\ p.results = <<>>
            /\ p.wrote = None
            /\ IsCli(p) => /\ p.reported = Some(0)
                           /\ stateFile = p.cursor0
                           /\ get_last_sync_time(stateFile).val = p.since
            /\ p.kind = "web" => p.reported = None

\* C1's case: the listing of a CLI pass failed while a cursor saved by an
\* earlier pass of this run was stored.
C1_Witness ==
    \E n \in Slots :
        /\ pass[n].kind = "sync"
        /\ pass[n].listRes = "http_error"
        /\ pass[n].cursor0 = FileCursor(StartTime + 1)

\* C2: after a pass whose listing succeeds and returns no photo, the
\* persisted cursor is the pass's start time T0, for sync() and for the web
\* pass.
C2_EmptyListingSavesT0 ==
    \A n \in Slots :
        LET p == pass[n]
        IN (Ended(p) /\ p.listRes = "ok" /\ p.photos = <<>>) =>
            /\ p.T0 # None
            /\ p.wrote = p.T0

\* C3: once the listing of a pass has succeeded, the pass ends with the
\* cursor persisted as T0, whatever the downloads did.
C3_ListedPassSavesT0 ==
    \A n \in Slots :
        LET p == pass[n]
        IN (Ended(p) /\ p.listRes = "ok") =>
            /\ p.T0 # None
            /\ p.wrote = p.T0

\* C4: the value a pass writes to the cursor was sampled before its listing
\* request was issued: it is never later than the time of that request.
C4_CursorSampledBeforeListing ==
    \A n \in Slots :
        LET p == pass[n]
        IN p.wrote # None => /\ p.listAt # None
                             /\ p.wrote[1] <= p.listAt[1]

\* C5: a photo created after a pass issued its listing request is returned
\* by the next successful listing (of a pass that lists from the stored
\* cursor).
C5_NoPhotoMissed ==
    \A n \in Slots :
        LET p == pass[n]
        IN (p.listRes = "ok" /\ ~Truthy(p.override)) =>
            p.owedAt \subseteq Range(IF p.photos = <<>> THEN <<>> ELSE p.photos)

\* C6: a pass of sync() attempts every listed photo, also after a failed
\* one, and ends with downloaded = the number of successful downloads and
\* the rest counted as failed (downloaded + failed = number listed).
C6_EveryPhotoAttempted ==
    \A n \in Slots :
        LET p == pass[n]
        IN (IsCli(p) /\ Ended(p) /\ p.photos # <<>>) =>
            /\ Len(p.results) = Len(p.photos)
            /\ p.downloaded = Count(p.results, "saved")
            /\ Len(p.photos) - p.downloaded = Count(p.results, "failed")
            /\ p.reported = Some(p.downloaded)

\* C7: download_photo never raises: every per-photo error becomes a Failed
\* (None) result.
C7_DownloadNeverRaises ==
    \A n \in Slots :
        \A i \in 1..Len(pass[n].results) : pass[n].results[i] # "raised"

\* C8: if the health check of a pass is false, the pass issues no listing
\* request and no download request, reports zero work and leaves the cursor
\* alone, whether it was started through sync(), run_sync or the web.
C8_UnhealthyPassDoesNothing ==
    \A n \in Slots :
        LET p == pass[n]
        IN (p.kind # "none" /\ ~p.healthy) =>
            /\ p.listRes = "none"
            /\ p.results = <<>>
            /\ p.wrote = None
            /\ p.reported \in {None, Some(0)}

\* C9: the listing request of a pass (one not given an explicit since date)
\* has no query string exactly when the state file holds no cursor; when it
\* holds cursor c the request is /photos?since=<digits>, the digits are not
\* empty and the server reads them as c.
C9_SinceIffCursorStored ==
    \A n \in Slots :
        LET p == pass[n]
            w == p.listWire
            q == Len(S_photos) + Len(S_since)
        IN (p.listRes # "none" /\ ~Truthy(p.override)) =>
            /\ (p.cursor0.k # "cursor") <=> (w = S_photos)
            /\ p.cursor0.k = "cursor" =>
                /\ IsPrefix(S_photos \o S_since, w)
                /\ Len(w) > q
                /\ \A i \in (q + 1)..Len(w) : IsDigit(w[i])
                /\ ServerSince(w) = Some(p.cursor0.ts)

\* C9's case: a pass listed with a cursor that an earlier pass had saved.
C9_Witness ==
    \E n \in Slots :
        /\ pass[n].listRes # "none"
        /\ ~Truthy(pass[n].override)
        /\ pass[n].cursor0 = FileCursor(StartTime + 1)

\* C10: for every request made through _make_request the signed path is the
\* wire path with everything from the first "?" removed, and the wire path
\* keeps the query string.
C10_SignedPathIsWireWithoutQuery ==
    (req # None /\ req[1] # health_request) =>
        LET r == req[1]
        IN /\ IsPrefix(r.signed, r.wire)
           /\ \A i \in 1..Len(r.signed) : r.signed[i] # "?"
           /\ Len(r.signed) < Len(r.wire) => r.wire[Len(r.signed) + 1] = "?"

\* C10's case: a request whose wire path carries a query string.
C10_Witness ==
    /\ req # None
    /\ req[1].signed = S_photos
    /\ Len(req[1].wire) > Len(S_photos)

\* C11: every HTTP request the client sends to the server during a pass, the
\* health check GET /health as well as listing and download requests,
\* carries both an X-Timestamp and an X-Signature header.
C11_EveryRequestCarriesAuthHeaders ==
    req # None => {"X-Timestamp", "X-Signature"} \subseteq req[1].headers

\* C12: a download, regular or live, leaves every file that was in the
\* download directory in place with its content: what it writes, it writes
\* to paths that did not exist, each path once.
C12_DownloadKeepsExistingFiles ==
    dl.kind # "none" =>
        /\ \A name \in DOMAIN dl.before :
                name \in DOMAIN dir /\ dir[name] = dl.before[name]
        /\ \A i \in 1..Len(dl.written) :
                /\ dl.written[i] \notin DOMAIN dl.before
                /\ \A j \in 1..(i - 1) : dl.written[j] # dl.written[i]

\* C12's case: a download whose name was taken was saved beside the file of
\* that name.
C12_Witness ==
    /\ dl.kind = "regular"
    /\ dl.result = "saved"
    /\ dl.input.original = Some(N_img)
    /\ N_img \in DOMAIN dl.before
    /\ dl.before[N_img] # dl.input.content

\* the name stem_k.ext of a name stem.ext (of a name without "." inside: name_k)
Numbered(name, k) ==
    IF \E i \in 2..(Len(name) - 1) : name[i] = "."
    THEN LET dot == CHOOSE i \in 2..(Len(name) - 1) :
                        name[i] = "." /\ \A j \in (i + 1)..(Len(name) - 1) : name[j] # "."
         IN SubSeq(name, 1, dot - 1) \o <<"_">> \o Format(k)
            \o SubSeq(name, dot, Len(name))
    ELSE name \o <<"_">> \o Format(k)

\* path is the first free name for the sanitized name wanted in directory names
FirstFree(names, wanted, path) ==
    \/ wanted \notin names /\ path = wanted
    \/ /\ wanted \in names
       /\ \E k \in 1..(Cardinality(names) + 1) :
            /\ path = Numbered(wanted, k)
            /\ path \notin names
            /\ \A j \in 1..(k - 1) : Numbered(wanted, j) \in names

\* C13: a download is written to its sanitized name stem.ext when that path
\* is free, else to stem_k.ext for the smallest k >= 1 that is free.
C13_FirstFreeName ==
    /\ (dl.kind = "regular" /\ dl.result = "saved" /\ dl.input.original # None
            /\ dl.input.original[1] # <<>>) =>
            FirstFree(DOMAIN dl.before, sanitize_filename(dl.input.original[1]),
                      dl.written[1])
    /\ (dl.kind = "live" /\ dl.result = "saved"
            /\ dl.input.parts[1].style = "quoted") =>
            FirstFree(DOMAIN dl.before,
                      sanitize_filename(dl.input.parts[1].filename), dl.written[1])

\* C13's case: with IMG.jpg and IMG_1.jpg present, IMG.jpg is saved as
\* IMG_2.jpg.
C13_Witness ==
    /\ dl.kind = "regular"
    /\ dl.input.original = Some(N_img)
    /\ {N_img, <<"I", "_", "1", ".", "j", "p", "g">>} \subseteq DOMAIN dl.before
    /\ dl.written = << <<"I", "_", "2", ".", "j", "p", "g">> >>

\* the response is the multipart body the server sends for two components
TwoParts(resp) ==
    /\ resp.http = "ok"
    /\ resp.write = "ok"
    /\ Len(resp.parts) = 2
    /\ \A i \in 1..2 : /\ resp.parts[i].style = "quoted"
                        /\ resp.parts[i].content # <<>>
                        /\ resp.parts[i].filename # <<>>
    /\ resp.parts[1].filename # resp.parts[2].filename

\* C15: for a live-photo response with a declared boundary whose body has
\* two parts with distinct filenames and non-empty content, the download
\* writes one file per part, each holding the part's bytes without the line
\* break that ends the part, and returns the path of the first part.
C15_LivePhotoWritesBothParts ==
    (dl.kind = "live" /\ TwoParts(dl.input)
        /\ dl.input.content_type = ContentTypeMultipart) =>
        /\ dl.result = "saved"
        /\ Len(dl.written) = 2
        /\ dl.written[1] # dl.written[2]
        /\ \A i \in 1..2 :
                /\ dl.written[i] \in DOMAIN dir \ DOMAIN dl.before
                /\ dir[dl.written[i]] = dl.input.parts[i].content
        /\ dl.path = Some(dl.written[1])
        /\ FirstFree(DOMAIN dl.before,
                     sanitize_filename(dl.input.parts[1].filename), dl.written[1])
        /\ DOMAIN dir = DOMAIN dl.before \cup Range(dl.written)

\* C15's case: two parts, the first one's bytes ending in a line break of
\* their own, saved next to older files.
C15_Witness ==
    /\ dl.kind = "live"
    /\ TwoParts(dl.input)
    /\ dl.input.content_type = ContentTypeMultipart
    /\ dl.input.parts[1].content = <<"x", CRLF>>
    /\ dl.before # EmptyDir
    /\ Len(dl.written) = 2

\* C16: if the content-type of a live-photo response has no boundary=
\* parameter, the download fails (None) and no file is created or changed.
C16_NoBoundaryFails ==
    (dl.kind = "live" /\ dl.input.http = "ok"
        /\ "boundary=" \notin Range(dl.input.content_type)) =>
        /\ dl.result = "failed"
        /\ dl.path = None
        /\ dl.written = <<>>
        /\ dir = dl.before

\* C16's case: a two-part body under a content-type without boundary=.
C16_Witness ==
    /\ dl.kind = "live"
    /\ dl.input.http = "ok"
    /\ dl.input.content_type = ContentTypePlain
    /\ Len(dl.input.parts) = 2
    /\ dl.before # EmptyDir

\* C17: the name a regular download is saved under is the X-Original-Filename
\* header when present and not empty; else the creation timestamp as
\* YYYYMMDD_HHMMSS when the metadata has one; else the sanitized photo
\* identifier; in the two derived cases with .mp4 when the media kind is
\* video and .jpg otherwise.  (The name is then sanitized and made free.)
C17_RegularNamePrecedence ==
    LET r == dl.input
        ext == IF r.media = Some("video") THEN <<".", "m", "p", "4">>
               ELSE <<".", "j", "p", "g">>
        wanted ==
            IF r.original # None /\ r.original[1] # <<>>
            THEN sanitize_filename(r.original[1])
            ELSE IF r.creation = IsoDate
            THEN <<"2", "0", "2", "4", "0", "1", "1", "5", "_",
                   "1", "0", "3", "0", "0", "0">> \o ext
            ELSE sanitize_filename(PhotoId(r.id)) \o ext
    IN (dl.kind = "regular" /\ dl.result = "saved") =>
        /\ Len(dl.written) = 1
        /\ dl.path = Some(dl.written[1])
        /\ FirstFree(DOMAIN dl.before, wanted, dl.written[1])

\* C17's case: no name from the server, a creation date, a video: saved as
\* 20240115_103000.mp4.
C17_Witness ==
    /\ dl.kind = "regular"
    /\ dl.input.original = Some(<<>>)
    /\ dl.written = << <<"2", "0", "2", "4", "0", "1", "1", "5", "_",
                         "1", "0", "3", "0", "0", "0", ".", "m", "p", "4">> >>

\* C18: get_last_sync_time never raises: it returns None when the state file
\* does not exist and for every corrupt content, text that is not JSON and
\* JSON that is not an object (a number, a list, null) included.
C18_LoadNeverRaises ==
    rd.kind = "client" =>
        /\ ~rd.res.raised
        /\ FileOf(rd.raw).k # "cursor" => rd.res.val = None

\* C19: a reader of the state file that runs during a save sees the complete
\* previous record or the complete new record, never an empty or partly
\* written file.
C19_SaveIsAtomicForReaders ==
    (rd.kind # "none" /\ rd.during) => rd.raw \in {rd.before, rd.after}

\* C20: after save_sync_time(c), get_last_sync_time() returns c whatever the
\* state file held before, and keeps returning c until the next save.
C20_SaveThenLoadRoundTrips ==
    /\ (wr.pc = "idle" /\ wr.saved # None) =>
            /\ disk = FileText(json_dumps(wr.saved[1]))
            /\ FileOf(disk) = save_sync_time(wr.saved[1])
    /\ (rd.kind = "client" /\ rd.saved # None) =>
            rd.res = [raised |-> FALSE, val |-> rd.saved]

\* C20's case: a two-digit cursor saved over a file that held JSON that is
\* not an object, and read back.
C20_Witness ==
    /\ rd.kind = "client"
    /\ rd.saved = Some(MaxCursor)
    /\ wr.before = FileText(<<"5">>)
    /\ rd.res.val = Some(MaxCursor)

\* C14: _sanitize_filename replaces each occurrence of the nine characters
\* < > : " / \ | ? * with "_" and changes nothing else: the result has the
\* length of the input, holds none of the nine, is the input when the input
\* holds none of them, and sanitizing it again changes nothing.
C14_SanitizeReplacesTheNine ==
    LET nine == {"<", ">", ":", "\"", "/", "\\", "|", "?", "*"}
        a == call.arg
        o == call.out
    IN call.fn = "sanitize" =>
        /\ Len(o) = Len(a)
        /\ \A i \in 1..Len(a) : o[i] = IF a[i] \in nine THEN "_" ELSE a[i]
        /\ \A i \in 1..Len(o) : o[i] \notin nine
        /\ (\A i \in 1..Len(a) : a[i] \notin nine) => o = a
        /\ call.again = o

\* C14's case: the name of the test, photo<>:"/\|?*.jpg, sanitized to
\* photo_________.jpg.
C14_Witness ==
    /\ call.fn = "sanitize"
    /\ call.arg = TestName
    /\ call.out = <<"p", "h", "o", "t", "o", "_", "_", "_", "_", "_", "_", "_",
                    "_", "_", ".", "j", "p", "g">>

\* the arguments of a verify_signature call are those the request was signed
\* with: same method, path and secret, the timestamp and the signature that
\* generate_auth_headers returned
SameRequest(a) ==
    /\ a.method = a.signed.method
    /\ a.path = a.signed.path
    /\ a.secret = a.signed.secret

SignedAsSent(a) ==
    /\ SameRequest(a)
    /\ a.timestamp = a.headers.timestamp
    /\ a.signature = a.headers.signature

\* |now - timestamp| of a verify_signature call, in whole seconds: the
\* second the verifier's clock shows against the second that was signed
Age(a) ==
    LET current == a.now \div TicksPerSecond
        signed == a.signed.now \div TicksPerSecond
    IN IF current >= signed THEN current - signed ELSE signed - current

Accepted == [raised |-> FALSE, val |-> TRUE]

Rejected == [raised |-> FALSE, val |-> FALSE]

\* C21 as stated: for every method, path, secret and timestamp,
\* verify_signature accepts the signature generate_auth_headers produced for
\* them at that timestamp, whenever it is verified.
C21_RoundTripAtAnyTime ==
    (call.fn = "verify" /\ SignedAsSent(call.arg)) => call.out = Accepted

\* C21: for every method, path and secret, verify_signature accepts the
\* timestamp and signature generate_auth_headers produced for them, provided
\* the verifier's clock is within max_age_seconds of the timestamp.
C21_RoundTripWhileFresh ==
    (call.fn = "verify" /\ SignedAsSent(call.arg)
        /\ Age(call.arg) <= call.arg.max_age) => call.out = Accepted

\* C21's case: a request signed for /photos/1 in the middle of a second and
\* verified at the age limit.
C21_Witness ==
    /\ call.fn = "verify"
    /\ SignedAsSent(call.arg)
    /\ call.arg.path = S_photos \o <<"/", "1">>
    /\ call.arg.signed.now % TicksPerSecond # 0
    /\ Age(call.arg) = call.arg.max_age
    /\ call.out = Accepted

\* exactly one of method, path and secret of a verify_signature call differs
\* from what was signed; timestamp and signature are those signed, within
\* the age limit
OneChanged(a, what) ==
    /\ a.timestamp = a.headers.timestamp
    /\ a.signature = a.headers.signature
    /\ Age(a) <= a.max_age
    /\ (a.method # a.signed.method) <=> (what = "method")
    /\ (a.path # a.signed.path) <=> (what = "path")
    /\ (a.secret # a.signed.secret) <=> (what = "secret")

\* the signature of the arguments of a verify_signature call at the
\* timestamp that was signed
Resigned(a) ==
    auth_headers(a.method, a.path, a.secret, a.signed.now).signature

\* one secret is the other followed by NUL characters only
PaddedAlike(s, t) ==
    LET short == IF Len(s) <= Len(t) THEN s ELSE t
        long == IF Len(s) <= Len(t) THEN t ELSE s
    IN /\ IsPrefix(short, long)
       /\ \A i \in (Len(short) + 1)..Len(long) : long[i] = NUL

C23_AgeLimit ==
    (call.fn = "verify" /\ SignedAsSent(call.arg)) =>
        /\ ~call.out.raised
        /\ call.out.val <=> (Age(call.arg) <= call.arg.max_age)
        /\ call.arg.max_age = max_age_seconds =>
                (call.out.val <=> Age(call.arg) <= 300)

\* C23's case: a timestamp exactly max_age_seconds ahead of the verifier's
\* clock is accepted.
C23_Witness ==
    /\ call.fn = "verify"
    /\ SignedAsSent(call.arg)
    /\ call.arg.max_age = max_age_seconds
    /\ call.arg.now < call.arg.signed.now
    /\ Age(call.arg) = 300
    /\ call.out = Accepted

\* C24: verify_signature never raises: for every input, a timestamp that is
\* no integer and a signature of the wrong length or content included, it
\* returns a boolean, and false when the timestamp is no integer.
C24_VerifyIsTotal ==
    call.fn = "verify" =>
        /\ ~call.out.raised
        /\ call.arg.timestamp # call.arg.headers.timestamp => call.out = Rejected

\* C25: check_health returns true if and only if GET /health completed with
\* status 200; for every other status and for every exception raised while
\* the request is made it returns false, and it never raises.
C25_HealthCheckIsTotal ==
    \A n \in Slots :
        LET p == pass[n]
        IN p.healthRes # "none" =>
            /\ p.healthRes # "raised"
            /\ (p.healthRes = "true") <=> (p.healthAns = "200")

PerItem == {"downloading", "downloaded", "download_failed"}

Results == {"downloaded", "download_failed"}

Terminal == {"sync_complete", "sync_error"}

\* the positions of the events of log e whose type is in types
At(e, types) == {j \in 1..Len(e) : e[j].type \in types}

\* C30: the events of a web pass are emitted in protocol order: sync_started
\* is the first event; photos_found comes only after a successful listing
\* and before every per-item event; for each item i a downloading event for
\* i precedes exactly one result event (downloaded or download_failed) for
\* i, and the item indices go up by one; a pass emits exactly one terminal
\* event (sync_complete or sync_error) and nothing after it.
C30_EventsInProtocolOrder ==
    \A n \in Slots :
        LET p == pass[n]
            e == p.events
        IN p.kind = "web" =>
            /\ At(e, {"sync_started"}) = (IF e = <<>> THEN {} ELSE {1})
            /\ \A j \in At(e, {"photos_found"}) :
                    /\ p.listRes = "ok"
                    /\ \A k \in At(e, PerItem) : j < k
            /\ At(e, PerItem) # {} => At(e, {"photos_found"}) # {}
            /\ \A j \in At(e, {"downloading"}) :
                    /\ e[j].current = Cardinality({k \in At(e, {"downloading"}) : k <= j})
                    /\ \/ j + 1 \in At(e, Results) /\ e[j + 1].current = e[j].current
                       \/ j = Len(e) /\ p.pc = "download"
            /\ \A j \in At(e, Results) :
                    j - 1 \in At(e, {"downloading"})
            /\ \A j \in At(e, Terminal) : j = Len(e)
            /\ p.pc = "finally" => At(e, Terminal) # {}
            /\ At(e, Terminal) # {} => p.pc = "finally"

\* C26: at most one web pass is in flight at any time: under every
\* interleaving of start requests, cancel requests and task steps, no second
\* pass is started between the acceptance of a start request and the end of
\* the pass it spawned (a start request in that interval is rejected).
C26_OnePassInFlight ==
    Cardinality({n \in TaskSlots : pass[n].kind = "web"}) <= 1

\* C27: once a cancel has been accepted for a running pass, that pass starts
\* no download beyond the one in progress at the cancel, whatever requests
\* arrive afterwards, a new start request included.
C27_NoDownloadAfterCancel ==
    \A n \in TaskSlots :
        pass[n].cancelAt # None => Started(pass[n]) <= pass[n].cancelAt[1]

\* C29: every started pass ends and leaves the system ready for the next
\* one: a web pass, on every exit path (health check failure, listing error,
\* no photos, completion, cancellation, unexpected exception), reaches its
\* end, and is_syncing is false then, so that the next start request is
\* accepted; a run_sync pass reaches its end and no exception leaves it.
C29_PassEndsAndSystemIsReady ==
    \A n \in Slots :
        /\ (pass[n].kind = "web") ~> (pass[n] = NoPass /\ ~sync_state.is_syncing)
        /\ (pass[n].kind = "run_sync") ~>
                (pass[n].pc = "done" /\ pass[n].outcome # "raised")

\* C29's case: a web pass has ended through its except clause and the flag
\* is clear.
C29_Witness ==
    /\ program = "web"
    /\ \A n \in Slots : pass[n] = NoPass
    /\ sync_state.error_message = "exception"
    /\ sync_state.failed_count = 1
    /\ ~sync_state.is_syncing

\* C31: within one pass the download requests are issued one at a time in
\* the order of the listing and each listed photo is requested at most
\* once: no failed download is retried, and the request for photo i+1 is
\* issued only when the result of photo i is known.
C31_DownloadsInListedOrder ==
    \A n \in Slots :
        LET p == pass[n]
        IN /\ IsPrefix(p.requested, p.photos)
           /\ Len(p.requested) = Len(p.results)
           /\ \A i, j \in 1..Len(p.requested) :
                    p.requested[i] = p.requested[j] => i = j
           /\ (p.requested # <<>> /\ req # None /\ req[1].wire # S_health
                    /\ ~IsPrefix(S_photos \o S_since, req[1].wire)
                    /\ req[1].wire # S_photos) =>
                    req[1].wire = download_path(p.requested[Len(p.requested)])

\* C31's case: the first of two listed photos failed and the pass went on
\* to request the second.
C31_Witness ==
    \E n \in Slots :
        /\ Len(pass[n].photos) = 2
        /\ pass[n].requested = pass[n].photos
        /\ pass[n].results[1] = "failed"

\* C32: a broadcast that has returned has called send_json exactly once on
\* every connection that was in active_connections from the call to the
\* return, whatever the other sends did and whichever other connections
\* came or went while it was suspended.
C32_BroadcastReachesEveryListener ==
    sending.pc = "returned" =>
        \A websocket \in sending.stayed : Count(sending.sent, websocket) = 1

\* C33: the configuration of a pass is the one in effect when the pass
\* started: every file the pass saves goes to the download directory of
\* that moment and its requests go to the server URL of that moment, also
\* when POST /api/config changes either while the pass runs.
C33_ConfigStableDuringPass ==
    \A n \in TaskSlots :
        LET p == pass[n]
        IN p.kind # "none" =>
            /\ \A i \in 1..Len(p.dirs) : p.dirs[i] = p.config0.DOWNLOAD_DIR
            /\ p.base_url # None => p.base_url[1] = p.config0.SERVER_URL

\* C34: a photo whose download failed in a pass and that was created before
\* the T0 of that pass is outside the window of a later pass that lists
\* from the stored cursor: once the pass has ended, a listing from the
\* cursor the state file holds does not return the photo.
C34_FailedPhotoNotListedAgain ==
    \A n \in Slots :
        LET p == pass[n]
            next == ServerListing(server, list_path(get_last_sync_time(stateFile).val))
        IN (Ended(p) /\ p.T0 # None) =>
            \A i \in 1..Len(p.results) :
                (p.results[i] = "failed" /\ server[p.photos[i]] < p.T0[1]) =>
                    p.photos[i] \notin Range(next)

\* C35: the stored cursor never decreases: with a clock that never goes
\* back, every value written to the state file is greater than or equal to
\* the cursor it replaces, whichever passes run and however the web passes
\* interleave.
C35_CursorNeverDecreases ==
    [][(stateFile.k = "cursor" /\ stateFile'.k = "cursor") =>
            stateFile'.ts >= stateFile.ts]_vars

\* the web pass in slot n has started: it is past the assignments that begin
\* _run_sync and has not reached the end of its finally clause
Current(n) == pass[n].kind = "web" /\ pass[n].pc # "start"

\* the step is the start of the web pass in slot n
Starts(n) == pass[n].kind = "web" /\ pass[n].pc = "start" /\ pass'[n].pc # "start"

\* the counters of SyncState that steer the progress display
Counters == {"downloaded_count", "failed_count", "current_photo", "total_photos"}

\* C36: the progress counters of the web client describe the current pass:
\* downloaded_count + failed_count is the number of its items whose result
\* is known, downloaded_count + failed_count <= current_photo <=
\* total_photos, all of them are 0 when a pass starts, and during a pass
\* they only grow.
C36_CountersDescribeThePass ==
    /\ [](\A n \in TaskSlots : Current(n) =>
            /\ sync_state.downloaded_count = Count(pass[n].results, "saved")
            /\ sync_state.failed_count = Count(pass[n].results, "failed")
            /\ sync_state.downloaded_count + sync_state.failed_count
                    <= sync_state.current_photo
            /\ sync_state.current_photo <= sync_state.total_photos)
    /\ [][IF \E n \in TaskSlots : Starts(n)
          THEN \A c \in Counters : sync_state'[c] = 0
          ELSE (\E n \in TaskSlots : Current(n)) =>
                    \A c \in Counters : sync_state'[c] >= sync_state[c]]_vars

\* the parts a live-photo response is split into: none when the request
\* failed or the content type declares no boundary
LiveParts(resp) ==
    IF resp.http # "ok" \/ no_boundary(resp.content_type) THEN <<>>
    ELSE Split(resp.body, <<"--">> \o boundary_of(resp.content_type))

\* the bytes of a part: what follows its first empty line, less one line break
PartContent(part) ==
    strip_crlf(SubSeq(part, header_end(part) + 2, Len(part)))

\* the part has a Content-Disposition header with a filename, and content
HasBoth(part) ==
    /\ "Content-Disposition" \in Range(part)
    /\ header_end(part) # 0
    /\ "filename=" \in Range(SubSeq(part, 1, header_end(part) - 1))
    /\ PartContent(part) # <<>>

\* the bytes a download was sent for the file it reports: the body, or the
\* content of the first part with a filename and content
Downloaded(d) ==
    IF d.kind = "regular" THEN d.input.content
    ELSE LET parts == LiveParts(d.input)
             i == CHOOSE k \in 1..Len(parts) :
                    HasBoth(parts[k]) /\ \A j \in 1..(k - 1) : ~HasBoth(parts[j])
         IN PartContent(parts[i])

\* C37: the result of a download is Saved exactly when the call wrote a
\* file: a path is returned only for a file the call created at that path
\* with the downloaded bytes, Failed only when the call created no file, and
\* for a live photo Failed exactly when no part had both a filename and
\* content.
C37_SavedExactlyWhenFileWritten ==
    dl.kind # "none" =>
        /\ (dl.result = "saved") <=> (dir # dl.before)
        /\ dl.result = "saved" =>
                /\ dl.path # None
                /\ dl.path[1] \notin DOMAIN dl.before
                /\ dl.path[1] \in DOMAIN dir
                /\ dir[dl.path[1]] = Downloaded(dl)
        /\ dl.result = "failed" => dl.path = None /\ dir = dl.before
        /\ dl.kind = "live" =>
                ((dl.result = "failed") <=>
                    \A k \in 1..Len(LiveParts(dl.input)) :
                        ~HasBoth(LiveParts(dl.input)[k]))

====
